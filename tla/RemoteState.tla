----------------------------- MODULE RemoteState -----------------------------
(***************************************************************************)
(* getRemoteState and compareStates of CompareStates.cpp: the state of the *)
(* client is asked for page by page, put together again, and compared with *)
(* the state a filler expects.  The pages are those of the tool backend    *)
(* (constructAccountRange, constructStorageRangeAt): server and client     *)
(* both count positions, one of them from zero and the other from one.     *)
(***************************************************************************)
EXTENDS Integers, Sequences, FiniteSets

CONSTANTS
    Inputs,       \* the pairs of a client's state and an expected state
    AccountPage,  \* 10: accounts asked for at a time
    StoragePage,  \* 20: storage records asked for at a time
    SafetyLimit,  \* 500: after that many pages the storage is held to be endless
    Field,        \* balance, nonce and code
    AnyValue      \* an expected value that stands for every value

(***************************************************************************)
(* A state of the client is a sequence, in the order of the map, of        *)
(* accounts with an address, the values of the fields and a sequence of    *)
(* storage records.  An expected state is a function from addresses: an    *)
(* account must be absent, or has some of the fields and perhaps storage.  *)
(***************************************************************************)
IsSequence(seq) == Len(seq) \in Nat /\ DOMAIN seq = 1 .. Len(seq)

ASSUME PageAssumption ==
    /\ AccountPage \in Nat \ {0}
    /\ StoragePage \in Nat \ {0}
    /\ SafetyLimit \in Nat \ {0}
    /\ "success" \notin Field

ASSUME InputAssumption ==
    \A in \in Inputs :
        /\ IsSequence(in.remote)
        /\ \A i, j \in DOMAIN in.remote : in.remote[i].address = in.remote[j].address => i = j
        /\ \A i \in DOMAIN in.remote :
              LET storage == in.remote[i].storage IN
              /\ IsSequence(storage)
              /\ \A j, k \in DOMAIN storage : storage[j].key = storage[k].key => j = k
        /\ \A a \in DOMAIN in.expect :
              LET storage == in.expect[a].storage IN
              /\ IsFiniteSet(storage)
              /\ \A e, f \in storage : e.key = f.key => e = f
              /\ DOMAIN in.expect[a].fields \subseteq Field

VARIABLES
    remote,       \* the state of the client
    expect,       \* the expected state
    phase,        \* where the reader is
    nextKey,      \* the account to ask for next, 0 when there is none
    accountList,  \* addresses read so far
    account,      \* the account whose storage is being read
    beginHash,    \* the storage record to ask for next
    safety,       \* pages left before the storage is held to be endless
    tmpStorage,   \* storage records of that account read so far
    state,        \* stateAccountMap: the accounts read so far
    left,         \* expected accounts not compared yet
    result        \* CompareResult: Success, or the error found last

vars == <<remote, expect, phase, nextKey, accountList, account, beginHash, safety, tmpStorage,
          state, left, result>>

input == <<remote, expect>>

-----------------------------------------------------------------------------
(* The pages of the tool backend. *)

\* Slip: the first position of a page is left out.
PageAfter(len, key, max) == {i \in 1 .. len : key < i /\ i < key + max}

\* Positions of a page: those before the key are skipped, and the loop is left
\* when the page is full.
Page(len, key, max) == {i \in 1 .. len : key <= i /\ i < key + max}

\* The position the loop over all accounts came to.
Looked(len, key, max) == IF key + max - 1 < len THEN key + max - 1 ELSE len

\* Slip: the loop goes on from the last account of the page.
AccountRangeAgain(key) ==
    LET page == Page(Len(remote), key, AccountPage) IN
    [addresses |-> {remote[i].address : i \in page},
     nextKey |-> IF page = {} THEN 0 ELSE Looked(Len(remote), key, AccountPage)]

\* Slip: an account is left out between two pages.
AccountRangeSkips(key) ==
    LET page == Page(Len(remote), key, AccountPage) IN
    [addresses |-> {remote[i].address : i \in page},
     nextKey |-> IF page = {} THEN 0 ELSE Looked(Len(remote), key, AccountPage) + 2]

AccountRange(key) ==
    LET page == Page(Len(remote), key, AccountPage) IN
    [addresses |-> {remote[i].address : i \in page},
     nextKey |-> IF page = {} THEN 0 ELSE Looked(Len(remote), key, AccountPage) + 1]

Position(address) == CHOOSE i \in DOMAIN remote : remote[i].address = address

StorageOf(address) == remote[Position(address)].storage

\* Slip: the key is that of the last record of the page.
StorageRangeAtAgain(address, begin) ==
    LET storage == StorageOf(address)
        first   == IF begin = 0 THEN 1 ELSE begin
        page    == Page(Len(storage), first, StoragePage)
    IN [storage |-> {storage[i] : i \in page},
        nextKey |-> IF Cardinality(page) = StoragePage THEN first + StoragePage - 1 ELSE 0]

\* Position 0 and position 1 both mean the first record; a full page has a next
\* key even if it ends with the last record.
StorageRangeAt(address, begin) ==
    LET storage == StorageOf(address)
        first   == IF begin = 0 THEN 1 ELSE begin
    IN [storage |-> {storage[i] : i \in Page(Len(storage), first, StoragePage)},
        nextKey |-> IF first + StoragePage - 1 <= Len(storage) THEN first + StoragePage ELSE 0]

-----------------------------------------------------------------------------
(* getRemoteState *)

\* A page of the list of accounts.
AskAccounts ==
    /\ phase = "accounts"
    /\ LET range == AccountRange(nextKey) IN
       /\ accountList' = accountList \cup range.addresses
       /\ nextKey' = range.nextKey
       /\ phase' = IF range.nextKey = 0 THEN "read" ELSE "accounts"
    /\ UNCHANGED <<input, account, beginHash, safety, tmpStorage, state, left, result>>

\* remoteGetAccount: balance, nonce and code are asked for at once.
ReadAccount(address) ==
    /\ phase = "read"
    /\ address \in accountList \ DOMAIN state
    /\ account' = address
    /\ beginHash' = 0
    /\ safety' = SafetyLimit
    /\ tmpStorage' = {}
    /\ phase' = "storage"
    /\ UNCHANGED <<input, nextKey, accountList, state, left, result>>

\* while (hasStorage && --safety): the last page allowed is never asked for.
StorageEndless ==
    /\ phase = "storage"
    /\ safety = 1
    /\ phase' = "endless"
    /\ safety' = 0
    /\ UNCHANGED <<input, nextKey, accountList, account, beginHash, tmpStorage, state, left, result>>

\* A page of the storage of the account; after the last one the account is done.
AskStorage ==
    /\ phase = "storage"
    /\ safety > 1
    /\ safety' = safety - 1
    /\ LET range == StorageRangeAt(account, beginHash)
           merged == tmpStorage \cup range.storage
       IN
       /\ tmpStorage' = merged
       /\ IF range.nextKey # 0
          THEN beginHash' = range.nextKey /\ UNCHANGED <<phase, state>>
          ELSE /\ phase' = "read"
               /\ state' = [a \in DOMAIN state \cup {account} |->
                               IF a # account THEN state[a]
                               ELSE [fields |-> remote[Position(a)].fields, storage |-> merged]]
               /\ UNCHANGED beginHash
    /\ UNCHANGED <<input, nextKey, accountList, account, left, result>>

StartCompare ==
    /\ phase = "read"
    /\ accountList \subseteq DOMAIN state
    /\ phase' = "compare"
    /\ UNCHANGED <<input, nextKey, accountList, account, beginHash, safety, tmpStorage, state, left, result>>

-----------------------------------------------------------------------------
(* compareStates *)

KeysOf(records) == {r.key : r \in records}

ValueAt(records, key) == (CHOOSE r \in records : r.key = key).value

\* compareStorage: a record the client does not have is a zero; when there are
\* as many records on both sides each one of the client must be expected, and
\* the client must not have more.
StorageMatches(expected, actual) ==
    /\ \A e \in expected :
          IF e.key \in KeysOf(actual)
          THEN e.value = AnyValue \/ ValueAt(actual, e.key) = e.value
          ELSE e.value \in {0, AnyValue}
    /\ Cardinality(expected) = Cardinality(actual) => KeysOf(actual) \subseteq KeysOf(expected)
    /\ Cardinality(expected) >= Cardinality(actual)

WrongFields(expected, actual) ==
    {f \in DOMAIN expected.fields : expected.fields[f] # actual.fields[f]}

\* compareAccounts: all errors are found, one of them is the result.
AccountErrors(expected, actual) ==
    WrongFields(expected, actual) \cup
    (IF expected.hasStorage /\ ~ StorageMatches(expected.storage, actual.storage)
     THEN {"storage"} ELSE {})

\* The errors of one expected account.
ErrorsAt(address) ==
    LET expected == expect[address] IN
    IF expected.absent
    THEN IF address \in DOMAIN state THEN {"should not exist"} ELSE {}
    ELSE IF address \notin DOMAIN state THEN {"missing"}
    ELSE AccountErrors(expected, state[address])

\* Slip: an account without an error takes the place of an earlier error.
CompareAccountForgets(address) ==
    /\ phase = "compare"
    /\ address \in left
    /\ left' = left \ {address}
    /\ IF ErrorsAt(address) = {} THEN result' = "success" ELSE result' \in ErrorsAt(address)
    /\ UNCHANGED <<input, phase, nextKey, accountList, account, beginHash, safety, tmpStorage, state>>

CompareAccount(address) ==
    /\ phase = "compare"
    /\ address \in left
    /\ left' = left \ {address}
    /\ IF ErrorsAt(address) = {} THEN UNCHANGED result ELSE result' \in ErrorsAt(address)
    /\ UNCHANGED <<input, phase, nextKey, accountList, account, beginHash, safety, tmpStorage, state>>

EndCompare ==
    /\ phase = "compare"
    /\ left = {}
    /\ phase' = IF result = "success" THEN "equal" ELSE "different"
    /\ UNCHANGED <<input, nextKey, accountList, account, beginHash, safety, tmpStorage, state, left, result>>

Ended == phase \in {"equal", "different", "endless"}

-----------------------------------------------------------------------------
Init ==
    /\ \E in \in Inputs : remote = in.remote /\ expect = in.expect
    /\ phase = "accounts"
    /\ nextKey = 1
    /\ accountList = {}
    /\ account = 0
    /\ beginHash = 0
    /\ safety = SafetyLimit
    /\ tmpStorage = {}
    /\ state = << >>
    /\ left = DOMAIN expect
    /\ result = "success"

Next ==
    \/ AskAccounts
    \/ \E address \in accountList : ReadAccount(address)
    \/ StorageEndless \/ AskStorage
    \/ StartCompare
    \/ \E address \in left : CompareAccount(address)
    \/ EndCompare

Spec == Init /\ [][Next]_vars

\* One thread runs the loops to their end.
FairSpec == Spec /\ WF_vars(Next)

-----------------------------------------------------------------------------
(* What must hold. *)

\* The state as the client has it: a function from addresses.
RemoteMap ==
    [a \in {remote[i].address : i \in DOMAIN remote} |->
        [fields |-> remote[Position(a)].fields,
         storage |-> {StorageOf(a)[i] : i \in DOMAIN StorageOf(a)}]]

\* The reader's variables fit the state it reads.
TypeOK ==
    /\ phase \in {"accounts", "read", "storage", "compare", "equal", "different", "endless"}
    /\ nextKey \in 0 .. Len(remote) + 1
    /\ safety \in 0 .. SafetyLimit
    /\ DOMAIN state \subseteq accountList
    /\ left \subseteq DOMAIN expect

\* The state that is compared is the state of the client, however its accounts
\* and records fall into pages (getRemoteState and constructAccountRange,
\* remoteGetAccount and constructStorageRangeAt).
WholeStateRead == phase \in {"compare", "equal", "different"} => state = RemoteMap

\* Reading is given up only at a storage that fills every page that may be asked
\* for (the safety counter of remoteGetAccount).
EndlessOnlyIfLarge ==
    phase = "endless" => Len(StorageOf(account)) >= (SafetyLimit - 1) * StoragePage

\* A state passes if and only if it is as expected: each record has its value,
\* zero where the client has none, and the client has no record besides,
\* unless more are expected than it has (compareStorage).
Meets(expected, address) ==
    IF expected.absent THEN address \notin DOMAIN RemoteMap
    ELSE /\ address \in DOMAIN RemoteMap
         /\ LET actual == RemoteMap[address] IN
            /\ \A f \in DOMAIN expected.fields : expected.fields[f] = actual.fields[f]
            /\ expected.hasStorage =>
                  /\ \A e \in expected.storage :
                        \/ e.value = AnyValue
                        \/ \E r \in actual.storage : r.key = e.key /\ r.value = e.value
                        \/ e.value = 0 /\ \A r \in actual.storage : r.key # e.key
                  /\ \/ \A r \in actual.storage : \E e \in expected.storage : e.key = r.key
                     \/ Cardinality(expected.storage) > Cardinality(actual.storage)

\* An error at one account is not forgotten at the next, whichever is reported.
VerdictExact ==
    /\ phase = "equal" => \A a \in DOMAIN expect : Meets(expect[a], a)
    /\ phase = "different" => \E a \in DOMAIN expect : ~ Meets(expect[a], a)

\* Every state is read and judged in the end, or given up: the pages come to an
\* end whatever their number.
ReadingEnds == <> Ended
=============================================================================
