------------------------------ MODULE MCStateTest ------------------------------
(* Four forks, in the order of their names, of which two need no system accounts
   and come after one that does, and a call and a blob transaction;
   the genesis of an environment of excess 2000000 has a blob price of 2, the
   block itself of 1. *)
EXTENDS StateTest

All == {"Cancun", "London", "Prague", "Shanghai"}
Old == {"London", "Shanghai"}
Both == {"call", "blob"}

MCForkRank == [Cancun |-> 1, London |-> 2, Prague |-> 3, Shanghai |-> 4]
MCSystemOf == [f \in All |-> CASE f = "Cancun" -> {"beacon"}
                               [] f = "Prague" -> {"beacon", "history"}
                               [] f \in Old -> {}]
MCBlobFee == [t \in Both |-> IF t = "blob" THEN 1 ELSE 0]
MCBlobPrice(excess) == IF excess >= 2314061 THEN 2 ELSE 1
MCRejects == [f \in All |-> [t \in Both |->
                 IF f \in Old /\ t = "blob" THEN "type" ELSE ""]]

Expect(forkSet, txSet, result, exception) ==
    [forks |-> forkSet, txs |-> txSet, result |-> result, exception |-> exception]

Filler(txSeq, pre, excess, expects) ==
    [txs |-> txSeq, pre |-> pre, expects |-> expects, emptyAccount |-> FALSE,
     env |-> [baseFee |-> 100, gasLimit |-> 10, excess |-> excess]]

\* What may be executed in the post state.
Whatever == SUBSET Both
Only(t) == {{t}}

CallFirst == <<"call", "blob">>
Valid == << >>
CallEverywhere == Expect(All, {"call"}, Only("call"), Valid)

Good == Filler(CallFirst, {}, 0,
    <<CallEverywhere, Expect({"Cancun", "Prague"}, {"blob"}, Only("blob"), Valid),
      Expect(Old, {"blob"}, {{}}, [f \in Old |-> "type"])>>)

\* The blob transaction is dropped on Cancun, and only there.
Pricey == Filler(<<"blob", "call">>, {"beacon"}, 2000000,
    <<Expect({"Cancun", "Prague"}, {"blob"}, Whatever, [Cancun |-> "blob fee"]),
      Expect({"Prague"}, {"call"}, Only("call"), Valid)>>)

MCFillers ==
    {Good, Pricey,
     [Good EXCEPT !.emptyAccount = TRUE],
     \* a transaction named twice on Cancun
     Filler(CallFirst, {}, 0, <<CallEverywhere, Expect({"Cancun"}, Both, Whatever, Valid)>>),
     \* the blob transaction is not covered
     Filler(CallFirst, {}, 0, <<CallEverywhere>>),
     \* the call is not rejected
     Filler(CallFirst, {}, 0, <<Expect({"London"}, Both, Whatever, [London |-> "type"])>>),
     \* a section that names no transaction of the test
     Filler(<<"call">>, {}, 0, <<Expect({"London"}, {"blob"}, Whatever, Valid)>>)}

Command(m, nets, txSet, single) ==
    [mode |-> m, nets |-> nets, txs |-> txSet, single |-> single, skipForks |-> {}, reports |-> TRUE]

MCCommands ==
    {Command("fill", All, Both, FALSE),
     Command("fill", {"London"}, Both, TRUE),
     Command("fill", {"Cancun"}, Both, FALSE),
     Command("fill", All, {"call"}, FALSE),
     Command("chain", All, Both, FALSE),
     Command("chain", {"Cancun"}, {"call"}, FALSE),
     Command("run", All, Both, FALSE),
     Command("run", {"London"}, Both, TRUE),
     Command("run", All, {"blob"}, FALSE),
     [Command("fill", All, Both, FALSE) EXCEPT !.skipForks = {"Prague"}],
     [Command("chain", All, Both, FALSE) EXCEPT !.skipForks = {"Prague"}],
     [Command("fill", All, Both, FALSE) EXCEPT !.reports = FALSE],
     [Command("run", All, Both, FALSE) EXCEPT !.reports = FALSE]}
=============================================================================
