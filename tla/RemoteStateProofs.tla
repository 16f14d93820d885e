-------------------------- MODULE RemoteStateProofs --------------------------
(***************************************************************************)
(* Proofs about RemoteState for states, expectations and pages of every    *)
(* size: the pages add up to the state, and the verdict is the one of the  *)
(* reference definition.                                                   *)
(***************************************************************************)
EXTENDS RemoteState, FiniteSetTheorems, TLAPS

Addresses == {remote[i].address : i \in DOMAIN remote}

StorageOK(storage) ==
    /\ IsSequence(storage)
    /\ \A j, k \in DOMAIN storage : storage[j].key = storage[k].key => j = k

ExpectedOK(expected) ==
    /\ IsFiniteSet(expected.storage)
    /\ \A e, f \in expected.storage : e.key = f.key => e = f
    /\ DOMAIN expected.fields \subseteq Field

\* The assumption on the inputs, for the one that was chosen.
InputOK ==
    /\ IsSequence(remote)
    /\ \A i, j \in DOMAIN remote : remote[i].address = remote[j].address => i = j
    /\ \A i \in DOMAIN remote : StorageOK(remote[i].storage)
    /\ \A a \in DOMAIN expect : ExpectedOK(expect[a])

Entry(a) ==
    [fields |-> remote[Position(a)].fields,
     storage |-> {StorageOf(a)[i] : i \in DOMAIN StorageOf(a)}]

First == IF beginHash = 0 THEN 1 ELSE beginHash

\* The accounts before the next key, and all of them in the end.
ListInv ==
    /\ phase \in {"accounts", "read", "storage", "compare", "equal", "different", "endless"}
    /\ nextKey \in 0 .. Len(remote) + 1
    /\ phase = "accounts" =>
          /\ nextKey # 0
          /\ accountList = {remote[i].address : i \in 1 .. nextKey - 1}
          /\ DOMAIN state = {}
    /\ phase # "accounts" => accountList = Addresses

\* The records before the next one to ask for; each page spends one of the
\* pages allowed.
StorageInv ==
    /\ safety \in 0 .. SafetyLimit
    /\ phase = "storage" =>
          /\ account \in Addresses
          /\ safety # 0
          /\ beginHash \in Nat
          /\ First \in 1 .. Len(StorageOf(account)) + 1
          /\ First - 1 = (SafetyLimit - safety) * StoragePage
          /\ tmpStorage = {StorageOf(account)[i] : i \in 1 .. First - 1}
    /\ EndlessOnlyIfLarge

\* What was read is what the client has.
StateInv ==
    /\ DOMAIN state \subseteq accountList
    /\ state = [a \in DOMAIN state |-> Entry(a)]
    /\ phase \in {"compare", "equal", "different"} => DOMAIN state = Addresses

\* The result is success as long as no account compared has an error.
VerdictInv ==
    /\ left \subseteq DOMAIN expect
    /\ phase \in {"accounts", "read", "storage", "endless"} =>
          left = DOMAIN expect /\ result = "success"
    /\ phase \in {"compare", "equal", "different"} =>
          (result = "success" <=> \A a \in DOMAIN expect \ left : ErrorsAt(a) = {})
    /\ phase = "equal" => left = {} /\ result = "success"
    /\ phase = "different" => left = {} /\ result # "success"

Inv == InputOK /\ ListInv /\ StorageInv /\ StateInv /\ VerdictInv

-----------------------------------------------------------------------------
(* Positions *)

\* An address has one position.
LEMMA PositionFits ==
    ASSUME InputOK, NEW a \in Addresses
    PROVE  Position(a) \in DOMAIN remote /\ remote[Position(a)].address = a
<1>1. \E i \in DOMAIN remote : remote[i].address = a
  BY DEF Addresses
<1> QED BY <1>1 DEF Position

\* The storage of an account of the client is a sequence of records.
LEMMA StorageFits ==
    ASSUME InputOK, NEW a \in Addresses
    PROVE  StorageOK(StorageOf(a))
BY PositionFits DEF InputOK, StorageOf

-----------------------------------------------------------------------------
(* The initial states *)

LEMMA InitInv == Init => Inv
<1> SUFFICES ASSUME Init PROVE Inv
  OBVIOUS
<1>1. PICK in \in Inputs : remote = in.remote /\ expect = in.expect
  BY DEF Init
<1>2. InputOK
  BY <1>1, InputAssumption DEF InputOK, StorageOK, ExpectedOK, IsSequence
<1>3. DOMAIN state = {}
  BY DEF Init
<1>4. ListInv
  <2>1. nextKey \in 0 .. Len(remote) + 1
    BY <1>2 DEF Init, InputOK, IsSequence
  <2>2. 1 .. nextKey - 1 = {}
    BY DEF Init
  <2> QED BY <1>3, <2>1, <2>2 DEF Init, ListInv
<1>5. StorageInv
  BY PageAssumption DEF Init, StorageInv, EndlessOnlyIfLarge
<1>6. StateInv
  <2>1. state = [a \in DOMAIN state |-> Entry(a)]
    BY DEF Init
  <2> QED BY <1>3, <2>1 DEF Init, StateInv
<1>7. VerdictInv
  BY DEF Init, VerdictInv
<1> QED BY <1>2, <1>4, <1>5, <1>6, <1>7 DEF Inv

-----------------------------------------------------------------------------
(* What a step leaves alone *)

LEMMA InputStays ==
    ASSUME InputOK, UNCHANGED input
    PROVE  /\ InputOK'
           /\ Addresses' = Addresses
           /\ \A a : Position(a)' = Position(a) /\ StorageOf(a)' = StorageOf(a) /\ Entry(a)' = Entry(a)
BY DEF input, InputOK, StorageOK, ExpectedOK, IsSequence, Addresses, Position, StorageOf, Entry

-----------------------------------------------------------------------------
(* Reading *)

\* The accounts of a page follow those read so far.
LEMMA AskAccountsInv ==
    ASSUME Inv, AskAccounts
    PROVE  Inv'
<1> DEFINE n == Len(remote)
           last == Looked(n, nextKey, AccountPage)
<1>1. n \in Nat /\ DOMAIN remote = 1 .. n /\ nextKey \in 1 .. n + 1
  BY DEF Inv, InputOK, IsSequence, ListInv, AskAccounts
<1>2. InputOK' /\ Addresses' = Addresses /\ \A a : Entry(a)' = Entry(a)
  BY InputStays DEF Inv, AskAccounts
<1>3. ListInv'
  <2>1. CASE Page(n, nextKey, AccountPage) = {}
    <3>1. nextKey = n + 1
      <4>1. nextKey \notin Page(n, nextKey, AccountPage)
        BY <2>1
      <4> QED BY <4>1, <1>1, PageAssumption DEF Page
    <3>2. AccountRange(nextKey) = [addresses |-> {}, nextKey |-> 0]
      BY <2>1 DEF AccountRange
    <3>3. phase' = "read" /\ nextKey' = 0 /\ accountList' = accountList
      BY <3>2 DEF AskAccounts
    <3>4. accountList = Addresses
      BY <1>1, <3>1 DEF Inv, ListInv, AskAccounts, Addresses
    <3> QED BY <1>1, <1>2, <3>3, <3>4 DEF ListInv, AskAccounts, input
  <2>2. CASE Page(n, nextKey, AccountPage) # {}
    <3>1. nextKey <= n
      BY <2>2, <1>1, PageAssumption DEF Page
    <3>2. last \in nextKey .. n /\ Page(n, nextKey, AccountPage) = nextKey .. last
      BY <3>1, <1>1, PageAssumption DEF Page, Looked
    <3>3. AccountRange(nextKey) =
            [addresses |-> {remote[i].address : i \in nextKey .. last}, nextKey |-> last + 1]
      BY <2>2, <3>2 DEF AccountRange
    <3>4. /\ phase' = "accounts" /\ nextKey' = last + 1
          /\ accountList' = accountList \cup {remote[i].address : i \in nextKey .. last}
      BY <3>2, <3>3, <1>1 DEF AskAccounts
    <3>5. accountList = {remote[i].address : i \in 1 .. nextKey - 1}
      BY DEF Inv, ListInv, AskAccounts
    <3>6. 1 .. last = (1 .. nextKey - 1) \cup (nextKey .. last)
      BY <3>2, <1>1
    <3>7. accountList' = {remote[i].address : i \in 1 .. last}
      BY <3>4, <3>5, <3>6
    <3>8. nextKey' - 1 = last /\ remote' = remote /\ state' = state
      BY <3>4, <3>2, <1>1 DEF AskAccounts, input
    <3> QED BY <3>2, <3>4, <3>7, <3>8, <1>1 DEF Inv, ListInv, AskAccounts
  <2> QED BY <2>1, <2>2
<1>4. phase' \in {"accounts", "read"}
  BY DEF AskAccounts
<1>5. StorageInv'
  BY <1>4 DEF Inv, StorageInv, EndlessOnlyIfLarge, AskAccounts
<1>6. StateInv'
  BY <1>2, <1>4 DEF Inv, StateInv, ListInv, AskAccounts
<1>7. VerdictInv'
  BY <1>4 DEF Inv, VerdictInv, AskAccounts, input
<1> QED BY <1>2, <1>3, <1>5, <1>6, <1>7 DEF Inv

\* Reading an account starts before its first record.
LEMMA ReadAccountInv ==
    ASSUME Inv, NEW address \in accountList, ReadAccount(address)
    PROVE  Inv'
<1>1. /\ InputOK' /\ Addresses' = Addresses
      /\ \A a : StorageOf(a)' = StorageOf(a) /\ Entry(a)' = Entry(a)
  BY InputStays DEF Inv, ReadAccount
<1>2. ListInv'
  BY <1>1 DEF Inv, ListInv, ReadAccount, input
<1>3. StorageInv'
  <2>1. account' \in Addresses'
    BY <1>1 DEF Inv, ListInv, ReadAccount
  <2>2. Len(StorageOf(account')) \in Nat
    BY <2>1, <1>1, StorageFits DEF Inv, StorageOK, IsSequence
  <2>3. beginHash' = 0 /\ First' = 1 /\ safety' = SafetyLimit /\ tmpStorage' = {}
    BY DEF ReadAccount, First
  <2>4. First' - 1 = (SafetyLimit - safety') * StoragePage
    BY <2>3, PageAssumption
  <2>5. 1 .. First' - 1 = {}
    BY <2>3
  <2>6. tmpStorage' = {StorageOf(account)'[i] : i \in 1 .. First' - 1}
    BY <2>3, <2>5
  <2>7. First' \in 1 .. Len(StorageOf(account)') + 1
    BY <1>1, <2>2, <2>3
  <2> QED BY <2>1, <2>3, <2>4, <2>6, <2>7, PageAssumption DEF StorageInv, EndlessOnlyIfLarge, ReadAccount
<1>4. StateInv'
  BY <1>1 DEF Inv, StateInv, ReadAccount
<1>5. VerdictInv'
  BY DEF Inv, VerdictInv, ReadAccount, input
<1> QED BY <1>1, <1>2, <1>3, <1>4, <1>5 DEF Inv

\* All the pages allowed but the last have been full.
LEMMA StorageEndlessInv ==
    ASSUME Inv, StorageEndless
    PROVE  Inv'
<1>1. /\ InputOK' /\ Addresses' = Addresses
      /\ \A a : StorageOf(a)' = StorageOf(a) /\ Entry(a)' = Entry(a)
  BY InputStays DEF Inv, StorageEndless
<1>2. ListInv'
  BY <1>1 DEF Inv, ListInv, StorageEndless, input
<1>3. StorageInv'
  <2>1. Len(StorageOf(account)) \in Nat
    BY StorageFits DEF Inv, StorageInv, StorageEndless, StorageOK, IsSequence
  <2>2. First - 1 = (SafetyLimit - 1) * StoragePage /\ First - 1 <= Len(StorageOf(account))
    BY <2>1 DEF Inv, StorageInv, StorageEndless
  <2>3. Len(StorageOf(account)) >= (SafetyLimit - 1) * StoragePage
    BY <2>1, <2>2, PageAssumption
  <2>4. StorageOf(account)' = StorageOf(account)
    BY <1>1 DEF StorageEndless
  <2> QED BY <2>3, <2>4, PageAssumption DEF StorageInv, EndlessOnlyIfLarge, StorageEndless
<1>4. StateInv'
  BY <1>1 DEF Inv, StateInv, StorageEndless
<1>5. VerdictInv'
  BY DEF Inv, VerdictInv, StorageEndless, input
<1> QED BY <1>1, <1>2, <1>3, <1>4, <1>5 DEF Inv

LEMMA ImageOfUnion ==
    ASSUME NEW f, NEW S, NEW T
    PROVE  {f[i] : i \in S} \cup {f[i] : i \in T} = {f[i] : i \in S \cup T}
OBVIOUS

\* The records of a page follow those read so far, and use up one page allowed.
LEMMA AskStorageInv ==
    ASSUME Inv, AskStorage
    PROVE  Inv'
<1> DEFINE storage == StorageOf(account)
           n == Len(storage)
           page == Page(n, First, StoragePage)
           range == StorageRangeAt(account, beginHash)
           merged == tmpStorage \cup range.storage
<1>1. /\ InputOK' /\ Addresses' = Addresses
      /\ \A a : StorageOf(a)' = StorageOf(a) /\ Entry(a)' = Entry(a)
      /\ \A a : Position(a)' = Position(a)
  BY InputStays DEF Inv, AskStorage
<1>2. account \in Addresses /\ n \in Nat /\ DOMAIN storage = 1 .. n
  BY StorageFits DEF Inv, StorageInv, AskStorage, StorageOK, IsSequence
<1>3. /\ First \in 1 .. n + 1
      /\ First - 1 = (SafetyLimit - safety) * StoragePage
      /\ tmpStorage = {storage[i] : i \in 1 .. First - 1}
      /\ safety \in 2 .. SafetyLimit
  BY PageAssumption DEF Inv, StorageInv, AskStorage
<1>4. range = [storage |-> {storage[i] : i \in page},
               nextKey |-> IF First + StoragePage - 1 <= n THEN First + StoragePage ELSE 0]
  BY DEF StorageRangeAt, First
<1>5. merged = {storage[i] : i \in (1 .. First - 1) \cup page}
  <2>1. range.storage = {storage[i] : i \in page}
    BY <1>4
  <2>2. merged = {storage[i] : i \in 1 .. First - 1} \cup {storage[i] : i \in page}
    BY <1>3, <2>1
  <2> QED BY <2>2, ImageOfUnion
<1>6. account' = account /\ phase = "storage" /\ safety' = safety - 1 /\ tmpStorage' = merged
  BY DEF AskStorage
<1>7. ListInv'
  BY <1>1 DEF Inv, ListInv, AskStorage, input
<1>8. CASE First + StoragePage - 1 <= n
  <2>1. range.nextKey = First + StoragePage /\ range.nextKey # 0
    BY <1>3, <1>4, <1>8, PageAssumption
  <2>2. phase' = "storage" /\ beginHash' = First + StoragePage /\ state' = state
    BY <2>1 DEF AskStorage
  <2>3. First' = First + StoragePage
    BY <2>2, <1>3, PageAssumption DEF First
  <2>4. (1 .. First - 1) \cup page = 1 .. First' - 1
    BY <2>3, <1>8, <1>2, <1>3, PageAssumption DEF Page
  <2>5. StorageOf(account)' = storage /\ tmpStorage' = {storage[i] : i \in 1 .. First' - 1}
    BY <1>1, <1>5, <1>6, <2>4
  <2>6. First' - 1 = (SafetyLimit - safety') * StoragePage
    <3>1. (SafetyLimit - (safety - 1)) * StoragePage = (SafetyLimit - safety) * StoragePage + StoragePage
      BY <1>3, PageAssumption
    <3> QED BY <3>1, <1>3, <1>6, <2>3, PageAssumption
  <2>7. First' \in 1 .. Len(StorageOf(account)') + 1
    BY <1>2, <1>3, <1>8, <2>3, <2>5, PageAssumption
  <2>8. StorageInv'
    <3>1. safety' \in 0 .. SafetyLimit /\ safety' # 0
      BY <1>3, <1>6, PageAssumption
    <3>2. beginHash' \in Nat
      BY <1>2, <1>3, <2>2, PageAssumption
    <3>3. account' \in Addresses'
      BY <1>1, <1>2, <1>6
    <3>4. tmpStorage' = {StorageOf(account)'[i] : i \in 1 .. First' - 1}
      BY <2>5
    <3>5. EndlessOnlyIfLarge'
      BY <2>2 DEF EndlessOnlyIfLarge
    <3> QED BY <2>6, <2>7, <3>1, <3>2, <3>3, <3>4, <3>5 DEF StorageInv
  <2>9. StateInv'
    BY <1>1, <2>2 DEF Inv, StateInv, AskStorage
  <2>10. VerdictInv'
    BY <2>2 DEF Inv, VerdictInv, AskStorage, input
  <2> QED BY <1>1, <1>7, <2>8, <2>9, <2>10 DEF Inv
<1>9. CASE ~ (First + StoragePage - 1 <= n)
  <2>1. range.nextKey = 0
    BY <1>4, <1>9
  <2>2. /\ phase' = "read"
        /\ state' = [a \in DOMAIN state \cup {account} |->
                        IF a # account THEN state[a]
                        ELSE [fields |-> remote[Position(a)].fields, storage |-> merged]]
    BY <2>1 DEF AskStorage
  <2>3. (1 .. First - 1) \cup page = 1 .. n
    BY <1>9, <1>2, <1>3, PageAssumption DEF Page
  <2>4. [fields |-> remote[Position(account)].fields, storage |-> merged] = Entry(account)
    BY <1>2, <1>5, <2>3 DEF Entry
  <2>5. state' = [a \in DOMAIN state' |-> Entry(a)']
    BY <1>1, <2>2, <2>4 DEF Inv, StateInv
  <2>6. StateInv'
    BY <1>1, <1>2, <2>2, <2>5 DEF Inv, StateInv, ListInv, AskStorage
  <2>7. StorageInv'
    BY <1>3, <1>6, <2>2, PageAssumption DEF StorageInv, EndlessOnlyIfLarge
  <2>8. VerdictInv'
    BY <2>2 DEF Inv, VerdictInv, AskStorage, input
  <2> QED BY <1>1, <1>7, <2>6, <2>7, <2>8 DEF Inv
<1> QED BY <1>8, <1>9

-----------------------------------------------------------------------------
(* Comparing *)

LEMMA StartCompareInv ==
    ASSUME Inv, StartCompare
    PROVE  Inv'
<1>1. /\ InputOK' /\ Addresses' = Addresses
      /\ \A a : StorageOf(a)' = StorageOf(a) /\ Entry(a)' = Entry(a)
  BY InputStays DEF Inv, StartCompare
<1>2. ListInv'
  BY <1>1 DEF Inv, ListInv, StartCompare, input
<1>3. StorageInv'
  BY DEF Inv, StorageInv, EndlessOnlyIfLarge, StartCompare
<1>4. StateInv'
  BY <1>1 DEF Inv, StateInv, ListInv, StartCompare
<1>5. VerdictInv'
  <2>1. left' = DOMAIN expect' /\ result' = "success" /\ phase' = "compare"
    BY DEF Inv, VerdictInv, StartCompare, input
  <2> QED BY <2>1 DEF VerdictInv
<1> QED BY <1>1, <1>2, <1>3, <1>4, <1>5 DEF Inv

\* No error has the name of the success.
LEMMA ErrorsNamed ==
    ASSUME InputOK, NEW a \in DOMAIN expect
    PROVE  "success" \notin ErrorsAt(a)
<1>1. DOMAIN expect[a].fields \subseteq Field
  BY DEF InputOK, ExpectedOK
<1> QED BY <1>1, PageAssumption DEF ErrorsAt, AccountErrors, WrongFields

LEMMA ErrorsStay ==
    ASSUME UNCHANGED <<expect, state>>
    PROVE  \A a : ErrorsAt(a)' = ErrorsAt(a)
BY DEF ErrorsAt

LEMMA CompareAccountInv ==
    ASSUME Inv, NEW address \in left, CompareAccount(address)
    PROVE  Inv'
<1>1. /\ InputOK' /\ Addresses' = Addresses
      /\ \A a : StorageOf(a)' = StorageOf(a) /\ Entry(a)' = Entry(a)
  BY InputStays DEF Inv, CompareAccount
<1>2. ListInv'
  BY <1>1 DEF Inv, ListInv, CompareAccount, input
<1>3. StorageInv'
  BY DEF Inv, StorageInv, EndlessOnlyIfLarge, CompareAccount
<1>4. StateInv'
  BY <1>1 DEF Inv, StateInv, CompareAccount
<1>5. VerdictInv'
  <2>1. address \in DOMAIN expect /\ "success" \notin ErrorsAt(address)
    BY ErrorsNamed DEF Inv, VerdictInv
  <2>2. \A a : ErrorsAt(a)' = ErrorsAt(a)
    BY ErrorsStay DEF CompareAccount, input
  <2>3. DOMAIN expect' \ left' = (DOMAIN expect \ left) \cup {address}
    BY <2>1 DEF CompareAccount, input
  <2>4. result = "success" <=> \A a \in DOMAIN expect \ left : ErrorsAt(a) = {}
    BY DEF Inv, VerdictInv, CompareAccount
  <2>5. result' = "success" <=> \A a \in DOMAIN expect' \ left' : ErrorsAt(a)' = {}
    <3>1. CASE ErrorsAt(address) = {}
      <4>1. result' = result
        BY <3>1 DEF CompareAccount
      <4> QED BY <3>1, <4>1, <2>2, <2>3, <2>4
    <3>2. CASE ErrorsAt(address) # {}
      <4>1. result' \in ErrorsAt(address)
        BY <3>2 DEF CompareAccount
      <4> QED BY <3>2, <4>1, <2>1, <2>2, <2>3
    <3> QED BY <3>1, <3>2
  <2> QED BY <2>5 DEF Inv, VerdictInv, CompareAccount, input
<1> QED BY <1>1, <1>2, <1>3, <1>4, <1>5 DEF Inv

LEMMA EndCompareInv ==
    ASSUME Inv, EndCompare
    PROVE  Inv'
<1>1. /\ InputOK' /\ Addresses' = Addresses
      /\ \A a : StorageOf(a)' = StorageOf(a) /\ Entry(a)' = Entry(a)
  BY InputStays DEF Inv, EndCompare
<1>2. ListInv'
  BY <1>1 DEF Inv, ListInv, EndCompare, input
<1>3. StorageInv'
  BY DEF Inv, StorageInv, EndlessOnlyIfLarge, EndCompare
<1>4. StateInv'
  BY <1>1 DEF Inv, StateInv, EndCompare
<1>5. VerdictInv'
  <2>1. \A a : ErrorsAt(a)' = ErrorsAt(a)
    BY ErrorsStay DEF EndCompare, input
  <2> QED BY <2>1 DEF Inv, VerdictInv, EndCompare, input
<1> QED BY <1>1, <1>2, <1>3, <1>4, <1>5 DEF Inv

\* Inv is inductive.
LEMMA NextInv == Inv /\ [Next]_vars => Inv'
<1> SUFFICES ASSUME Inv, [Next]_vars PROVE Inv'
  OBVIOUS
<1>1. CASE AskAccounts
  BY <1>1, AskAccountsInv
<1>2. CASE \E address \in accountList : ReadAccount(address)
  BY <1>2, ReadAccountInv
<1>3. CASE StorageEndless
  BY <1>3, StorageEndlessInv
<1>4. CASE AskStorage
  BY <1>4, AskStorageInv
<1>5. CASE StartCompare
  BY <1>5, StartCompareInv
<1>6. CASE \E address \in left : CompareAccount(address)
  BY <1>6, CompareAccountInv
<1>7. CASE EndCompare
  BY <1>7, EndCompareInv
<1>8. CASE UNCHANGED vars
  <2>1. UNCHANGED <<remote, expect, phase, nextKey, accountList, account, beginHash, safety,
                    tmpStorage, state, left, result>>
    BY <1>8 DEF vars
  <2>2. \A a : ErrorsAt(a)' = ErrorsAt(a)
    BY <2>1, ErrorsStay
  <2>3. /\ InputOK' /\ Addresses' = Addresses
        /\ \A a : StorageOf(a)' = StorageOf(a) /\ Entry(a)' = Entry(a)
    BY <2>1, InputStays DEF Inv, input
  <2>4. ListInv' /\ VerdictInv'
    BY <2>1, <2>2, <2>3 DEF Inv, ListInv, VerdictInv
  <2>5. StorageInv' /\ StateInv'
    BY <2>1, <2>3 DEF Inv, StorageInv, StateInv, EndlessOnlyIfLarge, First
  <2> QED BY <2>3, <2>4, <2>5 DEF Inv
<1> QED BY <1>1, <1>2, <1>3, <1>4, <1>5, <1>6, <1>7, <1>8 DEF Next

\* Inv holds in every reachable state.
LEMMA Invariance == Spec => []Inv
BY InitInv, NextInv, PTL DEF Spec

-----------------------------------------------------------------------------
(* The verdict *)

\* RemoteMap is the state read in the end.
LEMMA ReadMeansMap ==
    ASSUME Inv, DOMAIN state = Addresses
    PROVE  state = RemoteMap
BY DEF Inv, StateInv, RemoteMap, Addresses, Entry

\* As many keys as records.
LEMMA KeysCounted ==
    ASSUME NEW records, IsFiniteSet(records),
           \A e, f \in records : e.key = f.key => e = f
    PROVE  IsFiniteSet(KeysOf(records)) /\ Cardinality(KeysOf(records)) = Cardinality(records)
<1> DEFINE g == [e \in records |-> e.key]
<1>1. g \in Bijection(records, KeysOf(records))
  BY DEF Bijection, Injection, Surjection, IsInjective, KeysOf
<1>2. ExistsBijection(records, KeysOf(records))
  BY <1>1 DEF ExistsBijection
<1> QED BY <1>2, FS_Bijection, FS_CardinalityType

\* compareStorage, with its three counts, is the comparison record by record.
LEMMA StorageVerdict ==
    ASSUME NEW expected, IsFiniteSet(expected), \A e, f \in expected : e.key = f.key => e = f,
           NEW actual, IsFiniteSet(actual), \A e, f \in actual : e.key = f.key => e = f
    PROVE  StorageMatches(expected, actual) <=>
              /\ \A e \in expected :
                    \/ e.value = AnyValue
                    \/ \E r \in actual : r.key = e.key /\ r.value = e.value
                    \/ e.value = 0 /\ \A r \in actual : r.key # e.key
              /\ \/ \A r \in actual : \E e \in expected : e.key = r.key
                 \/ Cardinality(expected) > Cardinality(actual)
<1>1. \A e \in expected :
         (IF e.key \in KeysOf(actual)
          THEN e.value = AnyValue \/ ValueAt(actual, e.key) = e.value
          ELSE e.value \in {0, AnyValue})
         <=> \/ e.value = AnyValue
             \/ \E r \in actual : r.key = e.key /\ r.value = e.value
             \/ e.value = 0 /\ \A r \in actual : r.key # e.key
  <2> TAKE e \in expected
  <2>1. CASE e.key \in KeysOf(actual)
    <3>1. PICK r \in actual : r.key = e.key
      BY <2>1 DEF KeysOf
    <3>2. ValueAt(actual, e.key) = r.value /\ \A q \in actual : q.key = e.key => q = r
      BY <3>1 DEF ValueAt
    <3> QED BY <2>1, <3>1, <3>2
  <2>2. CASE e.key \notin KeysOf(actual)
    BY <2>2 DEF KeysOf
  <2> QED BY <2>1, <2>2
<1>2. KeysOf(actual) \subseteq KeysOf(expected) <=> \A r \in actual : \E e \in expected : e.key = r.key
  BY DEF KeysOf
<1>3. Cardinality(expected) \in Nat /\ Cardinality(actual) \in Nat
  BY FS_CardinalityType
<1>4. KeysOf(actual) \subseteq KeysOf(expected) => Cardinality(actual) <= Cardinality(expected)
  BY KeysCounted, FS_Subset
<1> QED BY <1>1, <1>2, <1>3, <1>4 DEF StorageMatches

\* An account of the state that was read has no error just when it meets the
\* expectation.
LEMMA ErrorsMeanUnmet ==
    ASSUME Inv, DOMAIN state = Addresses, NEW a \in DOMAIN expect
    PROVE  ErrorsAt(a) = {} <=> Meets(expect[a], a)
<1> DEFINE expected == expect[a]
<1>1. state = RemoteMap /\ DOMAIN RemoteMap = Addresses
  BY ReadMeansMap
<1>2. CASE expected.absent
  BY <1>1, <1>2 DEF ErrorsAt, Meets
<1>3. CASE ~ expected.absent /\ a \notin Addresses
  BY <1>1, <1>3 DEF ErrorsAt, Meets
<1>4. CASE ~ expected.absent /\ a \in Addresses
  <2> DEFINE storage == StorageOf(a)
             actual == {storage[i] : i \in DOMAIN storage}
  <2>1. /\ IsFiniteSet(expected.storage)
        /\ \A e, f \in expected.storage : e.key = f.key => e = f
    BY DEF Inv, InputOK, ExpectedOK
  <2>2. /\ Len(storage) \in Nat /\ DOMAIN storage = 1 .. Len(storage)
        /\ \A j, k \in DOMAIN storage : storage[j].key = storage[k].key => j = k
    BY <1>4, StorageFits DEF Inv, StorageOK, IsSequence
  <2>3. IsFiniteSet(actual) /\ \A e, f \in actual : e.key = f.key => e = f
    <3>1. IsFiniteSet(1 .. Len(storage))
      BY <2>2, FS_Interval
    <3>2. IsFiniteSet(actual)
      <4> DEFINE g == [i \in DOMAIN storage |-> storage[i]]
      <4>1. g \in Surjection(DOMAIN storage, actual)
        BY DEF Surjection
      <4> QED BY <4>1, <3>1, <2>2, FS_Surjection
    <3> QED BY <3>2, <2>2
  <2>4. RemoteMap[a] = Entry(a) /\ Entry(a).storage = actual
    BY <1>4 DEF RemoteMap, Entry, Addresses
  <2>5. StorageMatches(expected.storage, actual) <=>
              /\ \A e \in expected.storage :
                    \/ e.value = AnyValue
                    \/ \E r \in actual : r.key = e.key /\ r.value = e.value
                    \/ e.value = 0 /\ \A r \in actual : r.key # e.key
              /\ \/ \A r \in actual : \E e \in expected.storage : e.key = r.key
                 \/ Cardinality(expected.storage) > Cardinality(actual)
    BY <2>1, <2>3, StorageVerdict
  <2>6. ErrorsAt(a) = AccountErrors(expected, RemoteMap[a])
    BY <1>1, <1>4 DEF ErrorsAt
  <2>7. AccountErrors(expected, RemoteMap[a]) = {} <=>
           /\ \A f \in DOMAIN expected.fields : expected.fields[f] = RemoteMap[a].fields[f]
           /\ expected.hasStorage => StorageMatches(expected.storage, actual)
    <3>1. RemoteMap[a].storage = actual
      BY <2>4
    <3> QED BY <3>1 DEF AccountErrors, WrongFields
  <2>8. RemoteMap[a].storage = actual
    BY <2>4
  <2> QED BY <1>1, <1>4, <2>5, <2>6, <2>7, <2>8 DEF Meets
<1> QED BY <1>2, <1>3, <1>4

-----------------------------------------------------------------------------
(* Theorems *)

\* The variables of the reader fit the state it reads, whatever its size.
THEOREM TypeCorrect == Spec => []TypeOK
<1>1. Inv => TypeOK
  BY DEF Inv, ListInv, StorageInv, StateInv, VerdictInv, TypeOK
<1> QED BY <1>1, Invariance, PTL

\* The state compared is the client's, for every number of accounts and records
\* and every size of the pages (getRemoteState).
THEOREM ReadsWholeState == Spec => []WholeStateRead
<1>1. Inv => WholeStateRead
  BY ReadMeansMap DEF Inv, StateInv, WholeStateRead
<1> QED BY <1>1, Invariance, PTL

\* Reading is given up only at a storage that fills every page but the last one
\* allowed (remoteGetAccount).
THEOREM GivesUpOnlyIfLarge == Spec => []EndlessOnlyIfLarge
<1>1. Inv => EndlessOnlyIfLarge
  BY DEF Inv, StorageInv
<1> QED BY <1>1, Invariance, PTL

\* A state passes if and only if it is as expected (compareStates).
THEOREM JudgesExactly == Spec => []VerdictExact
<1>1. Inv => VerdictExact
  <2> SUFFICES ASSUME Inv, phase \in {"equal", "different"} PROVE VerdictExact
    BY DEF VerdictExact
  <2>1. DOMAIN state = Addresses /\ left = {}
    BY DEF Inv, StateInv, VerdictInv
  <2>2. result = "success" <=> \A a \in DOMAIN expect : ErrorsAt(a) = {}
    BY <2>1 DEF Inv, VerdictInv
  <2>3. result = "success" <=> \A a \in DOMAIN expect : Meets(expect[a], a)
    BY <2>1, <2>2, ErrorsMeanUnmet
  <2> QED BY <2>3 DEF VerdictExact, Inv, VerdictInv
<1> QED BY <1>1, Invariance, PTL
=============================================================================
