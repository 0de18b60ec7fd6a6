---------------------------- MODULE CommandsProofs ----------------------------
(***************************************************************************)
(* Two commands that work through many uploads while others change them:   *)
(* a purge deletes only what it showed and a bulk upgrade starts no        *)
(* document twice, and both tell the truth about what they did.  And a     *)
(* directory's declaration, which is read back as it was written, names no *)
(* object twice and keeps every address over an upgrade.                   *)
(***************************************************************************)
EXTENDS PurgeSession, BulkUpgrade, OwnershipMarker, FiniteSetTheorems, SequenceTheorems, WellFoundedInduction, TLAPS

-----------------------------------------------------------------------------
(* Selections: sets of numbers taken in order.                              *)

(* Of the finite sets of numbers with a property one is smallest.           *)
LEMMA SmallestExists ==
  ASSUME NEW Q, Q # {}, \A T \in Q : IsFiniteSet(T)
  PROVE  \E T \in Q : \A U \in Q : Cardinality(T) <= Cardinality(U)
<1> DEFINE Sizes == {Cardinality(T) : T \in Q}
<1>1. Sizes \subseteq Nat /\ Sizes # {}
  BY FS_CardinalityType
<1>2. IsWellFoundedOn(OpToRel(<, Nat), Nat)
  BY NatLessThanWellFounded
<1>3. PICK n \in Sizes : \A m \in Sizes : ~(<<m, n>> \in OpToRel(<, Nat))
  BY <1>1, <1>2, WFMin
<1>4. \A m \in Sizes : ~(m < n)
  <2> HIDE DEF Sizes
  <2> QED BY <1>1, <1>3 DEF OpToRel
<1>5. \A m \in Sizes : n <= m
  <2> HIDE DEF Sizes
  <2> QED BY <1>1, <1>4
<1>6. PICK T \in Q : n = Cardinality(T)
  OBVIOUS
<1>7. \A U \in Q : Cardinality(U) \in Sizes
  OBVIOUS
<1> HIDE DEF Sizes
<1> QED
  BY <1>5, <1>6, <1>7

LEMMA WithoutOne ==
  ASSUME NEW T, IsFiniteSet(T), NEW x \in T
  PROVE  /\ IsFiniteSet(T \ {x}) /\ Cardinality(T) \in Nat \ {0}
         /\ Cardinality(T \ {x}) = Cardinality(T) - 1
<1>1. IsFiniteSet(T \ {x}) /\ Cardinality(T \ {x}) = Cardinality(T) - 1
  BY FS_RemoveElement
<1>2. Cardinality(T) \in Nat /\ Cardinality(T \ {x}) \in Nat
  BY <1>1, FS_CardinalityType
<1> QED
  BY <1>1, <1>2

LEMMA GreatestExists ==
  ASSUME NEW S, IsFiniteSet(S), S # {}, S \subseteq Int
  PROVE  \E n \in S : \A m \in S : m <= n
<1> DEFINE Q == {T \in SUBSET S : T # {} /\ ~\E n \in T : \A m \in T : m <= n}
<1> SUFFICES ASSUME Q # {} PROVE FALSE
  OBVIOUS
<1>1. \A T \in Q : IsFiniteSet(T)
  BY FS_Subset
<1>2. PICK T \in Q : \A U \in Q : Cardinality(T) <= Cardinality(U)
  <2> HIDE DEF Q
  <2> QED BY <1>1, SmallestExists
<1>3. PICK x \in T : TRUE
  OBVIOUS
<1>4. /\ IsFiniteSet(T) /\ IsFiniteSet(T \ {x}) /\ Cardinality(T) \in Nat \ {0}
      /\ Cardinality(T \ {x}) = Cardinality(T) - 1
  BY <1>1, <1>3, WithoutOne
<1>5. T \ {x} \notin Q
  <2> HIDE DEF Q
  <2> QED BY <1>2, <1>4
<1>6. T \subseteq S /\ ~\E n \in T : \A m \in T : m <= n
  OBVIOUS
<1>7. CASE T \ {x} = {}
  BY <1>3, <1>6, <1>7
<1>8. CASE T \ {x} # {}
  <2>1. PICK k \in T \ {x} : \A m \in T \ {x} : m <= k
    BY <1>5, <1>6, <1>8
  <2> QED
    BY <1>3, <1>6, <2>1
<1> QED
  BY <1>7, <1>8

Increasing(f, S) ==
  /\ f \in [1..Cardinality(S) -> S]
  /\ \A i, j \in 1..Cardinality(S) : i < j => f[i] < f[j]

(* A finite set of numbers can be taken in order.                           *)
LEMMA OrderExists ==
  ASSUME NEW S, IsFiniteSet(S), S \subseteq Int
  PROVE  \E f : Increasing(f, S)
<1> DEFINE Q == {T \in SUBSET S : ~\E f : Increasing(f, T)}
<1> SUFFICES ASSUME Q # {} PROVE FALSE
  OBVIOUS
<1>1. \A T \in Q : IsFiniteSet(T)
  BY FS_Subset
<1>2. PICK T \in Q : \A U \in Q : Cardinality(T) <= Cardinality(U)
  <2> HIDE DEF Q
  <2> QED BY <1>1, SmallestExists
<1>3. T \subseteq S /\ IsFiniteSet(T) /\ ~\E f : Increasing(f, T)
  BY <1>1
<1>4. T # {}
  <2> SUFFICES ASSUME T = {} PROVE FALSE
    OBVIOUS
  <2>1. Cardinality(T) = 0
    BY FS_EmptySet
  <2>2. Increasing([i \in 1..0 |-> i], T)
    BY <2>1 DEF Increasing
  <2> QED
    BY <1>3, <2>2
<1>5. PICK x \in T : \A m \in T : m <= x
  BY <1>3, <1>4, GreatestExists
<1>6. PICK n : n = Cardinality(T)
  OBVIOUS
<1>7. IsFiniteSet(T \ {x}) /\ n \in Nat \ {0} /\ Cardinality(T \ {x}) = n - 1
  BY <1>3, <1>5, <1>6, WithoutOne
<1>8. T \ {x} \notin Q
  <2> HIDE DEF Q
  <2> QED BY <1>2, <1>6, <1>7
<1>9. PICK f : Increasing(f, T \ {x})
  BY <1>3, <1>8
<1>10. /\ f \in [1..(n - 1) -> T \ {x}]
       /\ \A i, j \in 1..(n - 1) : i < j => f[i] < f[j]
  BY <1>7, <1>9 DEF Increasing
<1>11. PICK g : g = [i \in 1..n |-> IF i = n THEN x ELSE f[i]]
  OBVIOUS
<1>12. \A i \in 1..n : i # n => i \in 1..(n - 1)
  BY <1>7
<1>13. g \in [1..n -> T]
  BY <1>5, <1>10, <1>11, <1>12
<1>14. ASSUME NEW i \in 1..n, NEW j \in 1..n, i < j PROVE g[i] < g[j]
  <2>1. i # n /\ i \in 1..(n - 1)
    BY <1>7, <1>14
  <2>2. g[i] = f[i] /\ f[i] \in T \ {x}
    BY <1>10, <1>11, <2>1
  <2>3. CASE j = n
    <3>1. g[j] = x /\ f[i] <= x /\ f[i] # x /\ f[i] \in Int /\ x \in Int
      BY <1>3, <1>5, <1>11, <2>2, <2>3
    <3> QED
      BY <2>2, <3>1
  <2>4. CASE j # n
    BY <1>10, <1>11, <1>12, <1>14, <2>1, <2>2, <2>4
  <2> QED
    BY <2>3, <2>4
<1> QED
  BY <1>3, <1>6, <1>13, <1>14 DEF Increasing

(* The k-th element of a set taken in order has k elements up to it.        *)
LEMMA RankOf ==
  ASSUME NEW S, IsFiniteSet(S), S \subseteq Int, NEW f, Increasing(f, S),
         NEW k \in 1..Cardinality(S)
  PROVE  f[k] \in S /\ Cardinality({y \in S : y <= f[k]}) = k
<1> DEFINE Upto == {y \in S : y <= f[k]}
<1>1. PICK n \in Nat : n = Cardinality(S)
  BY FS_CardinalityType
<1>2. f \in [1..n -> S] /\ \A i, j \in 1..n : i < j => f[i] < f[j]
  BY <1>1 DEF Increasing
<1>3. \A i, j \in 1..n : f[i] \in Int /\ (f[i] = f[j] => i = j)
  <2>1. ASSUME NEW i \in 1..n, NEW j \in 1..n, f[i] = f[j] PROVE i = j
    <3>1. PICK a \in Int : a = f[i] /\ a = f[j]
      BY <1>2, <2>1
    <3>2. i < j => a < a
      BY <1>2, <3>1
    <3>3. j < i => a < a
      BY <1>2, <3>1
    <3> QED
      BY <1>1, <3>2, <3>3
  <2> QED
    BY <1>2, <2>1
<1>4. f \in Injection(1..n, S)
  BY <1>2, <1>3 DEF Injection, IsInjective
<1>5. IsFiniteSet(1..n) /\ Cardinality(1..n) = n
  BY FS_Interval
<1>6. f \in Surjection(1..n, S)
  BY <1>1, <1>4, <1>5, FS_Injection
<1>7. PICK h : h = [i \in 1..k |-> f[i]]
  OBVIOUS
<1>8. h \in [1..k -> Upto]
  <2>1. ASSUME NEW i \in 1..k PROVE f[i] \in S /\ f[i] <= f[k]
    <3>1. i \in 1..n /\ k \in 1..n
      BY <1>1
    <3>2. i < k => f[i] < f[k]
      BY <1>2, <3>1
    <3> QED
      BY <1>2, <1>3, <3>1, <3>2
  <2> QED
    BY <1>7, <2>1
<1>9. \A y \in Upto : \E i \in 1..k : h[i] = y
  <2>1. ASSUME NEW y \in S, y <= f[k] PROVE \E i \in 1..k : h[i] = y
    <3>1. PICK i \in 1..n : f[i] = y
      BY <1>6 DEF Surjection
    <3>2. ~(k < i)
      <4>1. k \in 1..n /\ f[i] \in Int /\ f[k] \in Int
        BY <1>1, <1>3
      <4> QED
        BY <1>2, <2>1, <3>1, <4>1
    <3> QED
      BY <1>1, <1>7, <3>1, <3>2
  <2> QED
    BY <2>1
<1>10. \A i, j \in 1..k : h[i] = h[j] => i = j
  BY <1>1, <1>3, <1>7
<1>11. h \in Bijection(1..k, Upto)
  <2> HIDE DEF Upto
  <2> QED BY <1>8, <1>9, <1>10 DEF Bijection, Injection, Surjection, IsInjective
<1>12. IsFiniteSet(1..k) /\ Cardinality(1..k) = k
  BY FS_Interval
<1>13. Cardinality(Upto) = k
  <2> HIDE DEF Upto
  <2> QED BY <1>11, <1>12, FS_Bijection DEF ExistsBijection
<1> QED
  BY <1>1, <1>2, <1>13

(* Taken in order, each of its elements comes once.                         *)
LEMMA InOrderIs ==
  ASSUME NEW S, IsFiniteSet(S), S \subseteq Int
  PROVE  /\ Cardinality(S) \in Nat
         /\ InOrder(S) \in [1..Cardinality(S) -> S]
         /\ InOrder(S) \in Seq(S) /\ Len(InOrder(S)) = Cardinality(S)
         /\ \A i, j \in 1..Cardinality(S) : InOrder(S)[i] = InOrder(S)[j] => i = j
<1>1. Cardinality(S) \in Nat
  BY FS_CardinalityType
<1>2. PICK n : n = Cardinality(S)
  OBVIOUS
<1>3. PICK f : Increasing(f, S)
  BY OrderExists
<1>4. PICK g : g = InOrder(S)
  OBVIOUS
<1>5. ASSUME NEW k \in 1..n PROVE \E x \in S : Cardinality({y \in S : y <= x}) = k
  BY <1>2, <1>3, <1>5, RankOf
<1> DEFINE Ranked(k) == CHOOSE x \in S : Cardinality({y \in S : y <= x}) = k
<1>6. \A k \in 1..n : Ranked(k) \in S /\ Cardinality({y \in S : y <= Ranked(k)}) = k
  BY <1>5
<1>7. g = [k \in 1..n |-> Ranked(k)]
  BY <1>2, <1>4 DEF InOrder
<1> HIDE DEF Ranked
<1>8. g \in [1..n -> S] /\ \A k \in 1..n : Cardinality({y \in S : y <= g[k]}) = k
  BY <1>6, <1>7
<1>9. \A i, j \in 1..n : g[i] = g[j] => i = j
  BY <1>8
<1>10. g \in Seq(S) /\ Len(g) = n
  BY <1>1, <1>2, <1>8
<1> QED
  BY <1>1, <1>2, <1>4, <1>8, <1>9, <1>10
-----------------------------------------------------------------------------
(* Purge.                                                                   *)

Sessions == [at : {"plan", "inspect", "confirm", "wait", "done"},
             listing : Seq([upload : Uploads, protected : BOOLEAN]),
             plan : [candidates : Seq(Uploads), protected : SUBSET Uploads,
                     versioned : SUBSET Uploads],
             told : BOOLEAN, exit : {NoStatus, "success", "failure"}]
Loops == [at : {"idle", "run", "ended"}, ids : Seq(Uploads), next : Nat,
          step : {"inspect", "resolve", "list", "reserve", "remove", "unmark"},
          linked : BOOLEAN, expired : BOOLEAN, items : Seq(Outcomes)]
Histories == [shown : SUBSET Uploads, removed : SUBSET Uploads, kept : SUBSET Uploads,
              everLinked : SUBSET Uploads]
CommandLines == [backend : {"s3", "airplan"}, source : {"manifest", "storage"},
            includeVersioned : BOOLEAN, dryRun : BOOLEAN, yes : BOOLEAN]

PurgeTypes ==
  /\ bucket \in [Uploads -> Directory] /\ recorded \in [Uploads -> RecordedUpload]
  /\ session \in Sessions /\ worker \in Loops /\ history \in Histories /\ options \in CommandLines

(* No upload is planned twice.                                              *)
Distinct(s) == \A i, j \in DOMAIN s : s[i] = s[j] => i = j
PlanSound ==
  /\ session.at = "plan" => session.plan.candidates = <<>>
  /\ Distinct(session.plan.candidates)
  /\ \A i, j \in DOMAIN session.listing :
       session.listing[i].upload = session.listing[j].upload => i = j
  /\ \A i \in DOMAIN session.listing, j \in DOMAIN session.plan.candidates :
       session.listing[i].upload # session.plan.candidates[j]

(* What is kept is protected; what is in a history stays in it.             *)
PromisesSound ==
  /\ \A u \in history.kept : bucket[u].protected
  /\ history.everLinked \subseteq Sourced
  /\ ~options.includeVersioned =>
       \A u \in history.everLinked : Live(u) => InHistory(u)

(* Before the loop runs nothing is removed; from then on the plan does not  *)
(* change, and no promise is made any more.                                 *)
LoopStarts ==
  /\ worker.at = "idle" =>
       /\ history.removed = {} /\ session.at # "wait" /\ ~session.told
       /\ worker.next = 1 /\ worker.items = <<>> /\ worker.step = "inspect" /\ ~worker.linked
  /\ worker.at # "idle" =>
       /\ session.at \in {"wait", "done"}
       /\ worker.ids = session.plan.candidates /\ history.shown = ToSet(worker.ids)
  /\ worker.at = "ended" => worker.next = Len(worker.ids) + 1

(* The items told of, and the ones to come.                                 *)
ItemsSound ==
  /\ Len(worker.items) = worker.next - 1 /\ worker.next >= 1
  /\ worker.at # "idle" =>
       /\ worker.next <= Len(worker.ids) + 1
       /\ \A i \in DOMAIN worker.items :
            /\ worker.items[i] = "deleted" => ~Live(worker.ids[i])
            /\ worker.ids[i] \in history.removed => worker.items[i] \in {"deleted", "error"}
       /\ \A i \in worker.next..Len(worker.ids) : worker.ids[i] \notin history.removed

(* What the loop knows of the upload it is at.                              *)
CurrentSound ==
  /\ ~options.includeVersioned => ~worker.linked
  /\ Running =>
       /\ worker.step \in {"reserve", "remove", "unmark"} => CurrentId \notin history.kept
       /\ worker.step \in {"remove", "unmark"} /\ ~options.includeVersioned
            /\ Live(CurrentId) /\ CurrentId \in Sourced => bucket[CurrentId].versions = "receipt"

RemovedSound ==
  /\ \A u \in history.removed : ~Live(u)
  /\ OnlyWhatWasShown

ToldSound ==
  session.told =>
    /\ worker.at = "ended" /\ session.at = "done"
    /\ session.exit = "success" <=> Tally(worker.items, "error") = 0

PurgeInv ==
  /\ PurgeTypes /\ PlanSound /\ PromisesSound /\ LoopStarts
  /\ ItemsSound /\ CurrentSound /\ RemovedSound /\ ToldSound

-----------------------------------------------------------------------------
(* Purge: the invariant at the start, and what its parts rest on.           *)

LEMMA PurgeStarts ==
  PurgeInit => PurgeInv
<1> SUFFICES ASSUME PurgeInit PROVE PurgeInv
  OBVIOUS
<1> USE UploadsAssumption
<1>1. PurgeTypes
  <2>1. bucket \in [Uploads -> Directory]
    <3>1. Fresh \in Directory /\ [Fresh EXCEPT !.protected = TRUE] \in Directory
      BY DEF Fresh, Directory, Versions
    <3>2. [Fresh EXCEPT !.revision = TRUE, !.versions = "chain"] \in Directory
      BY DEF Fresh, Directory, Versions
    <3> QED
      BY <3>1, <3>2 DEF PurgeInit
  <2>2. recorded \in [Uploads -> RecordedUpload]
    BY DEF PurgeInit, RecordedUpload
  <2>3. session \in Sessions
    BY DEF PurgeInit, Sessions, NoPlan
  <2>4. worker \in Loops
    BY DEF PurgeInit, Loops
  <2>5. history \in Histories
    BY DEF PurgeInit, Histories
  <2>6. options \in CommandLines
    BY DEF PurgeInit, CommandLines
  <2> QED
    BY <2>1, <2>2, <2>3, <2>4, <2>5, <2>6 DEF PurgeTypes
<1>2. PlanSound
  BY DEF PurgeInit, PlanSound, Distinct, NoPlan
<1>3. PromisesSound
  <2>1. history.kept = {} /\ history.everLinked = {u \in Uploads : InHistory(u)}
    BY DEF PurgeInit
  <2>2. ASSUME NEW u \in Uploads, InHistory(u) PROVE u \in Sourced
    <3>1. bucket[u].versions = "chain" /\ (u \notin Sourced => ~bucket[u].revision)
      BY <2>2 DEF PurgeInit, InHistory
    <3>2. bucket[u] \in {Fresh, [Fresh EXCEPT !.protected = TRUE],
                        [Fresh EXCEPT !.revision = TRUE, !.versions = "chain"]}
      BY DEF PurgeInit
    <3>3. Fresh.versions = "absent" /\ [Fresh EXCEPT !.protected = TRUE].versions = "absent"
      BY DEF Fresh
    <3>4. [Fresh EXCEPT !.revision = TRUE, !.versions = "chain"].revision = TRUE
      BY DEF Fresh
    <3> QED
      BY <3>1, <3>2, <3>3, <3>4
  <2> QED
    BY <2>1, <2>2 DEF PromisesSound
<1>4. LoopStarts
  BY DEF PurgeInit, LoopStarts
<1>5. ItemsSound
  BY DEF PurgeInit, ItemsSound
<1>6. CurrentSound
  BY DEF PurgeInit, CurrentSound, Running
<1>7. RemovedSound
  BY DEF PurgeInit, RemovedSound, OnlyWhatWasShown
<1>8. ToldSound
  BY DEF PurgeInit, ToldSound
<1> QED
  BY <1>1, <1>2, <1>3, <1>4, <1>5, <1>6, <1>7, <1>8 DEF PurgeInv

(* A deletion's marker never comes back.                                    *)
StaysGone == \A u \in Uploads : ~bucket[u].marker => ~bucket'[u].marker

LEMMA OthersLeaveTheLoop ==
  ASSUME PurgeInv, UNCHANGED <<options, session, worker>>, StaysGone,
         history.removed' = history.removed, history.shown' = history.shown
  PROVE  PlanSound' /\ LoopStarts' /\ ItemsSound' /\ ToldSound'
<1>1. PlanSound'
  BY DEF PurgeInv, PlanSound
<1>2. LoopStarts'
  BY DEF PurgeInv, LoopStarts
<1>3. worker.ids \in Seq(Uploads) /\ worker.next \in Nat /\ worker.items \in Seq(Outcomes)
  BY DEF PurgeInv, PurgeTypes, Loops
<1>4. ItemsSound'
  <2>1. ASSUME worker.at # "idle", NEW i \in DOMAIN worker.items, worker.items[i] = "deleted"
        PROVE  ~Live(worker.ids[i])'
    <3>1. i \in 1..Len(worker.ids) /\ ~Live(worker.ids[i])
      BY <1>3, <2>1 DEF PurgeInv, ItemsSound
    <3> QED
      BY <1>3, <3>1 DEF StaysGone, Live
  <2> QED
    BY <2>1 DEF PurgeInv, ItemsSound
<1>5. ToldSound'
  BY DEF PurgeInv, ToldSound, Tally
<1> QED
  BY <1>1, <1>2, <1>4, <1>5

(* The loop takes the next identifier once this one has its outcome.        *)
LEMMA OutcomeRecorded ==
  ASSUME PurgeInv, Running, NEW outcome \in Outcomes, ItemEnds(outcome),
         UNCHANGED <<options, session>>, StaysGone,
         outcome = "deleted" => ~bucket'[CurrentId].marker,
         history.shown' = history.shown,
         \/ history.removed' = history.removed
         \/ history.removed' = history.removed \cup {CurrentId} /\ outcome \in {"deleted", "error"}
  PROVE  /\ worker' \in Loops
         /\ PlanSound' /\ LoopStarts' /\ ItemsSound' /\ ToldSound'
         /\ ~Running' \/ worker.step' = "inspect"
         /\ ~worker.linked'
<1>1. /\ worker.ids \in Seq(Uploads) /\ worker.next \in Nat /\ worker.items \in Seq(Outcomes)
      /\ worker \in Loops
  BY DEF PurgeInv, PurgeTypes, Loops
<1>2. PICK items : items = Append(worker.items, outcome)
  OBVIOUS
<1>3. worker' = [worker EXCEPT !.items = items, !.next = worker.next + 1,
                               !.step = "inspect", !.linked = FALSE]
  BY <1>2 DEF ItemEnds
<1>4. /\ items \in Seq(Outcomes) /\ Len(items) = Len(worker.items) + 1
      /\ \A i \in 1..Len(worker.items) : items[i] = worker.items[i]
      /\ items[Len(worker.items) + 1] = outcome
      /\ DOMAIN items = 1..(Len(worker.items) + 1)
  BY <1>1, <1>2, AppendProperties
<1>5. worker' \in Loops
  <2>1. worker.next + 1 \in Nat
    BY <1>1
  <2>2. /\ worker = [at |-> worker.at, ids |-> worker.ids, next |-> worker.next,
                    step |-> worker.step, linked |-> worker.linked, expired |-> worker.expired,
                    items |-> worker.items]
        /\ worker.at \in {"idle", "run", "ended"} /\ worker.expired \in BOOLEAN
    BY <1>1 DEF Loops
  <2>3. worker' = [at |-> worker.at, ids |-> worker.ids, next |-> worker.next + 1,
                   step |-> "inspect", linked |-> FALSE, expired |-> worker.expired,
                   items |-> items]
    BY <1>3, <2>2
  <2> QED
    BY <1>1, <1>4, <2>1, <2>2, <2>3 DEF Loops
<1>6. /\ worker'.items = items /\ worker'.next = worker.next + 1 /\ worker'.ids = worker.ids
      /\ worker'.at = worker.at /\ worker'.step = "inspect" /\ worker'.linked = FALSE
  BY <1>1, <1>3 DEF Loops
<1>7. worker.at = "run" /\ worker.next \in 1..Len(worker.ids) /\ Len(worker.items) = worker.next - 1
  BY <1>1 DEF Running, PurgeInv, ItemsSound
<1>8. PlanSound'
  BY DEF PurgeInv, PlanSound
<1>9. LoopStarts'
  BY <1>6, <1>7 DEF PurgeInv, LoopStarts
<1>10. ToldSound'
  BY <1>6, <1>7 DEF PurgeInv, ToldSound
<1>11. Distinct(worker.ids)
  BY <1>7 DEF PurgeInv, PlanSound, LoopStarts
<1>12. /\ \A i \in DOMAIN worker.items :
            /\ worker.items[i] = "deleted" => ~Live(worker.ids[i])
            /\ worker.ids[i] \in history.removed => worker.items[i] \in {"deleted", "error"}
       /\ \A i \in worker.next..Len(worker.ids) : worker.ids[i] \notin history.removed
  BY <1>7 DEF PurgeInv, ItemsSound
<1>13. \A i \in 1..Len(worker.ids) : i # worker.next => worker.ids[i] # CurrentId
  BY <1>1, <1>7, <1>11 DEF Distinct, CurrentId
<1>14. ASSUME NEW i \in DOMAIN items
       PROVE  /\ items[i] = "deleted" => ~Live(worker.ids[i])'
              /\ worker.ids[i] \in history.removed' => items[i] \in {"deleted", "error"}
  <2>1. i \in 1..worker.next
    BY <1>1, <1>4, <1>7, <1>14
  <2>2. CASE i = worker.next
    <3>1. items[i] = outcome
      BY <1>4, <1>7, <2>2
    <3>2. worker.ids[i] = CurrentId /\ CurrentId \notin history.removed
      BY <1>7, <1>12, <2>2 DEF CurrentId
    <3> QED
      BY <1>6, <3>1, <3>2 DEF Live
  <2>3. CASE i # worker.next
    <3>1. i \in 1..Len(worker.items) /\ i \in DOMAIN worker.items /\ items[i] = worker.items[i]
      BY <1>1, <1>4, <1>7, <2>1, <2>3
    <3>2. worker.ids[i] # CurrentId /\ worker.ids[i] \in Uploads
      BY <1>1, <1>7, <1>13, <2>1, <2>3
    <3>3. items[i] = "deleted" => ~bucket'[worker.ids[i]].marker
      BY <1>12, <3>1, <3>2 DEF Live, StaysGone
    <3>4. worker.ids[i] \in history.removed' => worker.ids[i] \in history.removed
      BY <3>2
    <3> QED
      BY <1>6, <1>12, <3>1, <3>3, <3>4 DEF Live
  <2> QED
    BY <2>2, <2>3
<1>15. \A i \in (worker.next + 1)..Len(worker.ids) : worker.ids[i] \notin history.removed'
  <2>1. TAKE i \in (worker.next + 1)..Len(worker.ids)
  <2>2. i \in worker.next..Len(worker.ids) /\ i \in 1..Len(worker.ids) /\ i # worker.next
    BY <1>1, <1>7, <2>1
  <2> QED
    BY <1>12, <1>13, <2>2
<1>16. ItemsSound'
  BY <1>1, <1>4, <1>6, <1>7, <1>14, <1>15 DEF ItemsSound, Live
<1> QED
  BY <1>5, <1>6, <1>8, <1>9, <1>10, <1>16

(* The loop goes on with the identifier it is at.                           *)
LEMMA LoopGoesOn ==
  ASSUME PurgeInv, Running, UNCHANGED <<options, session>>, StaysGone,
         worker' \in Loops, worker.at' = worker.at, worker.ids' = worker.ids,
         worker.next' = worker.next, worker.items' = worker.items,
         history.shown' = history.shown, history.removed' = history.removed
  PROVE  PlanSound' /\ LoopStarts' /\ ItemsSound' /\ ToldSound' /\ Running' /\ CurrentId' = CurrentId
<1>1. PlanSound'
  BY DEF PurgeInv, PlanSound
<1>2. LoopStarts'
  BY DEF PurgeInv, LoopStarts, Running
<1>3. worker.ids \in Seq(Uploads) /\ worker.next \in Nat /\ worker.items \in Seq(Outcomes)
  BY DEF PurgeInv, PurgeTypes, Loops
<1>4. ItemsSound'
  <2>1. ASSUME worker.at # "idle", NEW i \in DOMAIN worker.items, worker.items[i] = "deleted"
        PROVE  ~Live(worker.ids[i])'
    <3>1. i \in 1..Len(worker.ids) /\ ~Live(worker.ids[i])
      BY <1>3, <2>1 DEF PurgeInv, ItemsSound
    <3> QED
      BY <1>3, <3>1 DEF StaysGone, Live
  <2> QED
    BY <2>1 DEF PurgeInv, ItemsSound
<1>5. ToldSound'
  BY DEF PurgeInv, ToldSound, Tally, Running
<1>6. Running' /\ CurrentId' = CurrentId
  BY DEF Running, CurrentId
<1> QED
  BY <1>1, <1>2, <1>4, <1>5, <1>6

-----------------------------------------------------------------------------
(* Purge: what other people do keeps the invariant.                         *)

(* The loop is at an upload of the plan that was shown, not yet removed.    *)
LEMMA CurrentIsShown ==
  ASSUME PurgeInv, Running
  PROVE  CurrentId \in Uploads /\ CurrentId \in history.shown /\ CurrentId \notin history.removed
<1>1. worker.ids \in Seq(Uploads) /\ worker.next \in Nat
  BY DEF PurgeInv, PurgeTypes, Loops
<1>2. worker.next \in 1..Len(worker.ids) /\ worker.next \in worker.next..Len(worker.ids)
  BY <1>1 DEF Running, PurgeInv, ItemsSound
<1>3. history.shown = ToSet(worker.ids)
  BY DEF Running, PurgeInv, LoopStarts
<1>4. CurrentId \in history.shown
  BY <1>1, <1>2, <1>3 DEF CurrentId, ToSet
<1> QED
  BY <1>1, <1>2, <1>4 DEF CurrentId, Running, PurgeInv, ItemsSound

LEMMA OneDirectory ==
  ASSUME PurgeTypes, NEW u \in Uploads, NEW d \in Directory
  PROVE  [bucket EXCEPT ![u] = d] \in [Uploads -> Directory]
BY DEF PurgeTypes

LEMMA ProtectKeepsPromises ==
  ASSUME PurgeInv, NEW u \in Uploads, ProtectElsewhere(u)
  PROVE  PurgeInv'
<1> USE DEF PurgeTypes
<1>1. PurgeTypes
  BY DEF PurgeInv
<1>2. /\ UNCHANGED <<options, session, worker, recorded>> /\ bucket[u].marker
      /\ bucket' = [bucket EXCEPT ![u].protected = TRUE]
  BY DEF ProtectElsewhere, Other, Live
<1>3. /\ bucket' \in [Uploads -> Directory]
      /\ \A v \in Uploads : /\ bucket'[v].marker = bucket[v].marker
                            /\ bucket'[v].versions = bucket[v].versions
                            /\ bucket[v].protected => bucket'[v].protected
      /\ bucket'[u].protected
  BY <1>1, <1>2 DEF Directory
<1>4. /\ history' \in Histories /\ history.removed' = history.removed
      /\ history.shown' = history.shown /\ history.everLinked' = history.everLinked
      /\ history.kept \subseteq history.kept' /\ history.kept' \subseteq history.kept \cup {u}
      /\ worker.at # "idle" => history.kept' = history.kept
  BY <1>1 DEF ProtectElsewhere, Histories, PurgeInv, LoopStarts
<1>5. StaysGone
  BY <1>3 DEF StaysGone
<1>6. PlanSound' /\ LoopStarts' /\ ItemsSound' /\ ToldSound'
  BY <1>2, <1>4, <1>5, OthersLeaveTheLoop
<1>7. PurgeTypes'
  BY <1>1, <1>2, <1>3, <1>4
<1>8. PromisesSound'
  BY <1>1, <1>2, <1>3, <1>4 DEF PurgeInv, PromisesSound, Histories, Live, InHistory
<1>9. CurrentSound'
  <2>1. Running' = Running /\ CurrentId' = CurrentId
    BY <1>2 DEF Running, CurrentId
  <2>2. Running => CurrentId \in Uploads
    BY CurrentIsShown
  <2>3. Running => history.kept' = history.kept
    BY <1>4 DEF Running
  <2> QED
    BY <1>2, <1>3, <2>1, <2>2, <2>3 DEF PurgeInv, CurrentSound, Live
<1>10. RemovedSound'
  <2>1. /\ \A v \in history.removed : ~bucket[v].marker
        /\ history.removed \subseteq Uploads /\ OnlyWhatWasShown
    BY <1>1 DEF PurgeInv, RemovedSound, Histories, Live
  <2>2. u \notin history.removed
    BY <1>2, <2>1
  <2> QED
    BY <1>2, <1>3, <1>4, <2>1, <2>2 DEF RemovedSound, OnlyWhatWasShown, Live
<1> QED
  BY <1>6, <1>7, <1>8, <1>9, <1>10 DEF PurgeInv

LEMMA UnprotectKeepsPromises ==
  ASSUME PurgeInv, NEW u \in Uploads, UnprotectElsewhere(u)
  PROVE  PurgeInv'
<1> USE DEF PurgeTypes
<1>1. PurgeTypes
  BY DEF PurgeInv
<1>2. /\ UNCHANGED <<options, session, worker, recorded>>
      /\ bucket' = [bucket EXCEPT ![u].protected = FALSE]
  BY DEF UnprotectElsewhere, Other
<1>3. /\ bucket' \in [Uploads -> Directory]
      /\ \A v \in Uploads : /\ bucket'[v].marker = bucket[v].marker
                            /\ bucket'[v].versions = bucket[v].versions
                            /\ bucket[v].protected /\ v # u => bucket'[v].protected
  BY <1>1, <1>2 DEF Directory
<1>4. /\ history' \in Histories /\ history.removed' = history.removed
      /\ history.shown' = history.shown /\ history.everLinked' = history.everLinked
      /\ history.kept' = history.kept \ {u}
  BY <1>1 DEF UnprotectElsewhere, Histories
<1>5. StaysGone
  BY <1>3 DEF StaysGone
<1>6. PlanSound' /\ LoopStarts' /\ ItemsSound' /\ ToldSound'
  BY <1>2, <1>4, <1>5, OthersLeaveTheLoop
<1>7. PurgeTypes'
  BY <1>1, <1>2, <1>3, <1>4
<1>8. PromisesSound'
  BY <1>1, <1>2, <1>3, <1>4 DEF PurgeInv, PromisesSound, Histories, Live, InHistory
<1>9. CurrentSound'
  <2>1. Running' = Running /\ CurrentId' = CurrentId
    BY <1>2 DEF Running, CurrentId
  <2>2. Running => CurrentId \in Uploads
    BY CurrentIsShown
  <2> QED
    BY <1>2, <1>3, <1>4, <2>1, <2>2 DEF PurgeInv, CurrentSound, Live
<1>10. RemovedSound'
  <2>1. /\ \A v \in history.removed : ~bucket[v].marker
        /\ history.removed \subseteq Uploads /\ OnlyWhatWasShown
    BY <1>1 DEF PurgeInv, RemovedSound, Histories, Live
  <2> QED
    BY <1>2, <1>3, <1>4, <2>1 DEF RemovedSound, OnlyWhatWasShown, Live
<1> QED
  BY <1>6, <1>7, <1>8, <1>9, <1>10 DEF PurgeInv

LEMMA LinkKeepsPromises ==
  ASSUME PurgeInv, NEW u \in Uploads, LinkElsewhere(u)
  PROVE  PurgeInv'
<1> USE DEF PurgeTypes
<1>1. PurgeTypes
  BY DEF PurgeInv
<1>2. UNCHANGED <<options, session, worker, recorded>> /\ bucket[u].marker /\ u \in Sourced
  BY DEF LinkElsewhere, Other, Live
<1>3. /\ bucket' \in [Uploads -> Directory]
      /\ \A v \in Uploads : /\ bucket'[v].marker = bucket[v].marker
                            /\ bucket'[v].protected = bucket[v].protected
                            /\ bucket[v].versions # "absent" => bucket'[v].versions = bucket[v].versions
      /\ history' \in Histories /\ history.removed' = history.removed
      /\ history.shown' = history.shown /\ history.kept' = history.kept
      /\ \/ history.everLinked' = history.everLinked
         \/ history.everLinked' = history.everLinked \cup {u} /\ bucket'[u].versions = "chain"
  <2>1. CASE bucket[u].versions = "absent"
    <3>1. /\ bucket' = [bucket EXCEPT ![u].versions = "chain"]
          /\ history' = [history EXCEPT !.everLinked = history.everLinked \cup {u}]
      BY <2>1 DEF LinkElsewhere
    <3>2. /\ bucket' \in [Uploads -> Directory] /\ bucket'[u].versions = "chain"
          /\ \A v \in Uploads : /\ bucket'[v].marker = bucket[v].marker
                                /\ bucket'[v].protected = bucket[v].protected
                                /\ v # u => bucket'[v].versions = bucket[v].versions
      BY <1>1, <3>1 DEF Directory, Versions
    <3>3. /\ history' \in Histories /\ history.removed' = history.removed
          /\ history.shown' = history.shown /\ history.kept' = history.kept
          /\ history.everLinked' = history.everLinked \cup {u}
      BY <1>1, <3>1 DEF Histories
    <3> QED
      BY <2>1, <3>2, <3>3
  <2>2. CASE bucket[u].versions # "absent"
    <3>1. bucket' = [bucket EXCEPT ![u].revision = TRUE] /\ UNCHANGED history
      BY <2>2 DEF LinkElsewhere
    <3>2. /\ bucket' \in [Uploads -> Directory]
          /\ \A v \in Uploads : /\ bucket'[v].marker = bucket[v].marker
                                /\ bucket'[v].protected = bucket[v].protected
                                /\ bucket'[v].versions = bucket[v].versions
      BY <1>1, <3>1 DEF Directory
    <3> QED
      BY <1>1, <3>1, <3>2
  <2> QED
    BY <2>1, <2>2
<1>5. StaysGone
  BY <1>3 DEF StaysGone
<1>6. PlanSound' /\ LoopStarts' /\ ItemsSound' /\ ToldSound'
  BY <1>2, <1>3, <1>5, OthersLeaveTheLoop
<1>7. PurgeTypes'
  BY <1>1, <1>2, <1>3
<1>8. PromisesSound'
  <2>1. history.kept \subseteq Uploads /\ history.everLinked \subseteq Uploads
    BY <1>1 DEF Histories
  <2>2. \A v \in history.kept' : bucket'[v].protected
    BY <1>3, <2>1 DEF PurgeInv, PromisesSound
  <2>3. history.everLinked' \subseteq Sourced
    BY <1>2, <1>3 DEF PurgeInv, PromisesSound
  <2>4. ASSUME ~options.includeVersioned, NEW v \in history.everLinked', bucket'[v].marker
        PROVE  bucket'[v].versions = "chain"
    <3>1. CASE v \in history.everLinked
      BY <1>3, <2>1, <2>4, <3>1 DEF PurgeInv, PromisesSound, Live, InHistory
    <3>2. CASE v \notin history.everLinked
      BY <1>3, <2>4, <3>2
    <3> QED
      BY <3>1, <3>2
  <2> QED
    BY <1>2, <2>2, <2>3, <2>4 DEF PromisesSound, Live, InHistory
<1>9. CurrentSound'
  <2>1. Running' = Running /\ CurrentId' = CurrentId
    BY <1>2 DEF Running, CurrentId
  <2>2. Running => CurrentId \in Uploads
    BY CurrentIsShown
  <2> QED
    BY <1>2, <1>3, <2>1, <2>2 DEF PurgeInv, CurrentSound, Live
<1>10. RemovedSound'
  <2>1. /\ \A v \in history.removed : ~bucket[v].marker
        /\ history.removed \subseteq Uploads /\ OnlyWhatWasShown
    BY <1>1 DEF PurgeInv, RemovedSound, Histories, Live
  <2>2. u \notin history.removed
    BY <1>2, <2>1
  <2> QED
    BY <1>2, <1>3, <2>1, <2>2 DEF RemovedSound, OnlyWhatWasShown, Live
<1> QED
  BY <1>6, <1>7, <1>8, <1>9, <1>10 DEF PurgeInv

LEMMA DeleteKeepsPromises ==
  ASSUME PurgeInv, NEW u \in Uploads, DeleteElsewhere(u)
  PROVE  PurgeInv'
<1> USE DEF PurgeTypes
<1>1. PurgeTypes
  BY DEF PurgeInv
<1>2. UNCHANGED <<options, session, worker, history>> /\ ~bucket[u].protected
  BY DEF DeleteElsewhere, Other
<1>3. PICK d : /\ d = [marker |-> FALSE, payload |-> FALSE, revision |-> FALSE, protected |-> FALSE,
                       versions |-> IF u \notin Sourced THEN "absent"
                                    ELSE IF InHistory(u) THEN "tombstone" ELSE "receipt"]
               /\ bucket' = [bucket EXCEPT ![u] = d]
  BY DEF DeleteElsewhere
<1>4. d \in Directory /\ d.marker = FALSE
  BY <1>3 DEF Directory, Versions
<1>5. /\ bucket' \in [Uploads -> Directory] /\ bucket'[u].marker = FALSE
      /\ \A v \in Uploads : v # u => bucket'[v] = bucket[v]
  BY <1>1, <1>3, <1>4, OneDirectory
<1>6. recorded' \in [Uploads -> RecordedUpload]
  BY <1>1 DEF DeleteElsewhere, RecordedUpload
<1>7. StaysGone
  BY <1>5 DEF StaysGone
<1>8. PlanSound' /\ LoopStarts' /\ ItemsSound' /\ ToldSound'
  BY <1>2, <1>7, OthersLeaveTheLoop
<1>9. PurgeTypes'
  BY <1>1, <1>2, <1>5, <1>6
<1>10. PromisesSound'
  <2>1. history.kept \subseteq Uploads /\ history.everLinked \subseteq Uploads
    BY <1>1 DEF Histories
  <2>2. \A v \in history.kept : bucket'[v].protected
    BY <1>2, <1>5, <2>1 DEF PurgeInv, PromisesSound
  <2>3. ASSUME ~options.includeVersioned, NEW v \in history.everLinked, bucket'[v].marker
        PROVE  bucket'[v].versions = "chain"
    BY <1>5, <2>1, <2>3 DEF PurgeInv, PromisesSound, Live, InHistory
  <2> QED
    BY <1>2, <2>2, <2>3 DEF PurgeInv, PromisesSound, Live, InHistory
<1>11. CurrentSound'
  <2>1. Running' = Running /\ CurrentId' = CurrentId
    BY <1>2 DEF Running, CurrentId
  <2>2. Running => CurrentId \in Uploads
    BY CurrentIsShown
  <2> QED
    BY <1>2, <1>5, <2>1, <2>2 DEF PurgeInv, CurrentSound, Live
<1>12. RemovedSound'
  BY <1>1, <1>2, <1>5 DEF PurgeInv, RemovedSound, OnlyWhatWasShown, Histories, Live
<1> QED
  BY <1>8, <1>9, <1>10, <1>11, <1>12 DEF PurgeInv

(* What changes nothing but the manifest.                                   *)
LEMMA ManifestOnly ==
  ASSUME PurgeInv, UNCHANGED <<bucket, options, session, worker, history>>,
         recorded' \in [Uploads -> RecordedUpload]
  PROVE  PurgeInv'
<1>1. StaysGone
  BY DEF StaysGone
<1>2. PlanSound' /\ LoopStarts' /\ ItemsSound' /\ ToldSound'
  BY <1>1, OthersLeaveTheLoop
<1>3. PurgeTypes'
  BY DEF PurgeInv, PurgeTypes
<1>4. PromisesSound'
  BY DEF PurgeInv, PromisesSound, Live, InHistory
<1>5. CurrentSound'
  BY DEF PurgeInv, CurrentSound, Running, CurrentId, Live
<1>6. RemovedSound'
  BY DEF PurgeInv, RemovedSound, OnlyWhatWasShown, Live
<1> QED
  BY <1>2, <1>3, <1>4, <1>5, <1>6 DEF PurgeInv

LEMMA SyncKeepsPromises ==
  ASSUME PurgeInv, NEW u \in Uploads, SyncElsewhere(u)
  PROVE  PurgeInv'
<1>1. recorded' \in [Uploads -> RecordedUpload]
  BY DEF SyncElsewhere, PurgeInv, PurgeTypes, RecordedUpload, Directory
<1> QED
  BY <1>1, ManifestOnly DEF SyncElsewhere, Other

-----------------------------------------------------------------------------
(* Purge: planning and the prompt, before the loop runs.                    *)

LEMMA BeforeTheLoop ==
  ASSUME PurgeInv, session.at \in {"plan", "inspect", "confirm"},
         UNCHANGED <<bucket, recorded, options, worker>>,
         session' \in Sessions, session'.at # "wait", ~session'.told, PlanSound',
         history' \in Histories, history'.removed = history.removed,
         history'.everLinked = history.everLinked,
         \A u \in history'.kept : u \in history.kept \/ bucket[u].protected
  PROVE  PurgeInv'
<1>1. worker.at = "idle" /\ history.removed = {}
  BY DEF PurgeInv, LoopStarts
<1>2. PurgeTypes'
  BY DEF PurgeInv, PurgeTypes
<1>3. PromisesSound'
  BY DEF PurgeInv, PromisesSound, Live, InHistory
<1>4. LoopStarts'
  BY <1>1 DEF PurgeInv, LoopStarts
<1>5. ItemsSound'
  BY <1>1 DEF PurgeInv, ItemsSound
<1>6. CurrentSound'
  BY <1>1 DEF PurgeInv, CurrentSound, Running
<1>7. RemovedSound'
  BY <1>1 DEF RemovedSound, OnlyWhatWasShown
<1>8. ToldSound'
  BY DEF ToldSound
<1> QED
  BY <1>2, <1>3, <1>4, <1>5, <1>6, <1>7, <1>8 DEF PurgeInv

LEMMA ManifestPlanKeepsPromises ==
  ASSUME PurgeInv, PlanFromManifest
  PROVE  PurgeInv'
<1>1. session \in Sessions /\ history \in Histories /\ ~session.told
  BY DEF PurgeInv, PurgeTypes, LoopStarts, PlanFromManifest
<1>2. PICK S : S \subseteq Uploads /\ ManifestPlan.candidates = InOrder(S)
  BY DEF ManifestPlan
<1>3. IsFiniteSet(S) /\ S \subseteq Int
  BY <1>2, UploadsAssumption, FS_Subset
<1>4. PICK c : c = InOrder(S)
  OBVIOUS
<1>5. c \in Seq(S) /\ Distinct(c)
  <2>1. /\ c \in [1..Cardinality(S) -> S] /\ c \in Seq(S)
        /\ \A i, j \in 1..Cardinality(S) : c[i] = c[j] => i = j
    BY <1>3, <1>4, InOrderIs
  <2> QED
    BY <2>1 DEF Distinct
<1>6. c \in Seq(Uploads)
  BY <1>2, <1>5
<1>7. PICK p : /\ p = ManifestPlan /\ p.candidates = c
               /\ p \in [candidates : Seq(Uploads), protected : SUBSET Uploads,
                         versioned : SUBSET Uploads]
  <2>1. PICK live, versioned, protected :
          /\ live \subseteq Uploads /\ versioned \subseteq live /\ protected \subseteq live
          /\ ManifestPlan = [candidates |-> InOrder(live \ (versioned \cup protected)),
                             protected |-> protected, versioned |-> versioned]
    <3> DEFINE live == {u \in Uploads : recorded[u].live}
               versioned == {u \in live : recorded[u].revision /\ ~options.includeVersioned}
               protected == {u \in live \ versioned : recorded[u].protected}
    <3> WITNESS live, versioned, protected
    <3> QED
      BY DEF ManifestPlan
  <2>2. InOrder(live \ (versioned \cup protected)) = c
    BY <1>2, <1>4, <2>1
  <2> QED
    BY <1>6, <2>1, <2>2
<1>8. session' = [session EXCEPT !.at = "confirm", !.plan = p, !.listing = <<>>]
  BY <1>7 DEF PlanFromManifest, Planned
<1>9. /\ session' \in Sessions /\ session'.at = "confirm" /\ ~session'.told
      /\ session'.plan.candidates = c /\ session'.listing = <<>>
  <2>1. /\ session = [at |-> session.at, listing |-> session.listing, plan |-> session.plan,
                      told |-> session.told, exit |-> session.exit]
        /\ session.exit \in {NoStatus, "success", "failure"}
    BY <1>1 DEF Sessions
  <2>2. session' = [at |-> "confirm", listing |-> <<>>, plan |-> p, told |-> session.told,
                    exit |-> session.exit]
    BY <1>8, <2>1
  <2>3. <<>> \in Seq([upload : Uploads, protected : BOOLEAN])
    OBVIOUS
  <2> QED
    BY <1>1, <1>7, <2>1, <2>2, <2>3 DEF Sessions
<1>10. PlanSound'
  BY <1>5, <1>9 DEF PlanSound
<1>11. /\ history' \in Histories /\ history'.removed = history.removed
       /\ history'.everLinked = history.everLinked
       /\ history'.kept = history.kept \cup {u \in Uploads : bucket[u].protected}
  BY <1>1 DEF PlanFromManifest, Histories
<1> QED
  BY <1>9, <1>10, <1>11, BeforeTheLoop DEF PlanFromManifest

LEMMA ListingKeepsPromises ==
  ASSUME PurgeInv, ListStorage
  PROVE  PurgeInv'
<1>1. session \in Sessions /\ history \in Histories /\ ~session.told
  BY DEF PurgeInv, PurgeTypes, LoopStarts, ListStorage
<1>2. PICK S : S = {u \in Uploads : Live(u)}
  OBVIOUS
<1>3. IsFiniteSet(S) /\ S \subseteq Int /\ S \subseteq Uploads
  BY <1>2, UploadsAssumption, FS_Subset
<1>4. PICK n, markers : n = Cardinality(S) /\ markers = InOrder(S)
  OBVIOUS
<1>5. /\ n \in Nat /\ markers \in [1..n -> S]
      /\ \A i, j \in 1..n : markers[i] = markers[j] => i = j
  BY <1>3, <1>4, InOrderIs
<1>6. PICK l : /\ l = [i \in DOMAIN markers |-> [upload |-> markers[i],
                                               protected |-> bucket[markers[i]].protected]]
               /\ session' = [session EXCEPT !.at = "inspect", !.listing = l]
  BY <1>2, <1>4 DEF ListStorage
<1>7. l \in Seq([upload : Uploads, protected : BOOLEAN])
  <2>1. \A u \in Uploads : bucket[u].protected \in BOOLEAN
    BY DEF PurgeInv, PurgeTypes, Directory
  <2>2. PICK T : T = [upload : Uploads, protected : BOOLEAN]
    OBVIOUS
  <2>3. DOMAIN l = 1..n /\ \A i \in 1..n : l[i] \in T
    BY <1>3, <1>5, <1>6, <2>1, <2>2
  <2>4. l = [i \in 1..n |-> l[i]]
    BY <1>5, <1>6
  <2>5. l \in [1..n -> T]
    BY <2>3, <2>4
  <2>6. l \in Seq(T)
    BY <1>5, <2>5
  <2> QED
    BY <2>2, <2>6
<1>8. /\ session' \in Sessions /\ session'.at = "inspect" /\ ~session'.told
      /\ session'.plan = session.plan /\ session'.listing = l
  BY <1>1, <1>6, <1>7 DEF Sessions
<1>9. session.plan.candidates = <<>>
  BY DEF ListStorage, PurgeInv, PlanSound
<1>10. PlanSound'
  BY <1>5, <1>6, <1>8, <1>9 DEF PlanSound, Distinct
<1>11. /\ history' \in Histories /\ history'.removed = history.removed
       /\ history'.everLinked = history.everLinked
       /\ history'.kept = history.kept \cup {u \in Uploads : bucket[u].protected}
  BY <1>1 DEF ListStorage, Histories
<1> QED
  BY <1>8, <1>10, <1>11, BeforeTheLoop DEF ListStorage

LEMMA InspectionKeepsPromises ==
  ASSUME PurgeInv, InspectListed
  PROVE  PurgeInv'
<1>1. session \in Sessions /\ history \in Histories /\ ~session.told
  BY DEF PurgeInv, PurgeTypes, LoopStarts, InspectListed
<1>2. PICK l, plan : l = session.listing /\ plan = session.plan
  OBVIOUS
<1>3. /\ l \in Seq([upload : Uploads, protected : BOOLEAN]) /\ l # <<>>
      /\ plan \in [candidates : Seq(Uploads), protected : SUBSET Uploads,
                   versioned : SUBSET Uploads]
      /\ plan.candidates \in Seq(Uploads)
  BY <1>1, <1>2 DEF Sessions, InspectListed
<1>3a. PICK T : T = [upload : Uploads, protected : BOOLEAN]
  OBVIOUS
<1>3b. l \in Seq(T) /\ l # <<>>
  BY <1>3, <1>3a
<1>3c. /\ Len(l) \in Nat \ {0} /\ Head(l) = l[1] /\ Head(l) \in T /\ Tail(l) \in Seq(T)
       /\ Len(Tail(l)) = Len(l) - 1 /\ \A i \in 1..Len(Tail(l)) : Tail(l)[i] = l[i + 1]
  BY <1>3b, HeadTailProperties
<1>3d. DOMAIN l = 1..Len(l) /\ DOMAIN Tail(l) = 1..Len(Tail(l))
  BY <1>3b, <1>3c
<1>4. /\ Len(l) \in Nat \ {0} /\ Head(l) = l[1] /\ Head(l) \in [upload : Uploads, protected : BOOLEAN]
      /\ Tail(l) \in Seq([upload : Uploads, protected : BOOLEAN])
      /\ Len(Tail(l)) = Len(l) - 1 /\ DOMAIN Tail(l) = 1..(Len(l) - 1)
      /\ \A i \in 1..(Len(l) - 1) : Tail(l)[i] = l[i + 1]
      /\ DOMAIN l = 1..Len(l)
  BY <1>3a, <1>3c, <1>3d
<1>5. PICK item, u : item = Head(l) /\ u = item.upload /\ u \in Uploads /\ u = l[1].upload
  BY <1>4
<1>6. /\ Distinct(plan.candidates)
      /\ \A i, j \in DOMAIN l : l[i].upload = l[j].upload => i = j
      /\ \A i \in DOMAIN l, j \in DOMAIN plan.candidates : l[i].upload # plan.candidates[j]
  BY <1>2 DEF PurgeInv, PlanSound
<1>7. UNCHANGED <<bucket, recorded, options, worker, history>>
  BY DEF InspectListed
<1>8. CASE Live(u)
  <2>1. PICK p : /\ p = Classified(plan, u, bucket[u].revision, item.protected)
                 /\ session' = [session EXCEPT !.listing = Tail(l), !.plan = p]
    BY <1>2, <1>5, <1>8 DEF InspectListed
  <2>2. PICK c : c = Append(plan.candidates, u)
    OBVIOUS
  <2>3. /\ c \in Seq(Uploads) /\ DOMAIN c = 1..(Len(plan.candidates) + 1)
        /\ c[Len(plan.candidates) + 1] = u
        /\ \A i \in 1..Len(plan.candidates) : c[i] = plan.candidates[i]
    BY <1>3, <1>5, <2>2, AppendProperties
  <2>4. /\ p \in [candidates : Seq(Uploads), protected : SUBSET Uploads, versioned : SUBSET Uploads]
        /\ p.candidates = plan.candidates \/ p.candidates = c
    BY <1>3, <1>5, <2>1, <2>2, <2>3 DEF Classified
  <2>5. /\ session' \in Sessions /\ session'.at = "inspect" /\ ~session'.told
        /\ session'.plan = p /\ session'.listing = Tail(l)
    BY <1>1, <1>4, <2>1, <2>4 DEF Sessions, InspectListed
  <2>6. ASSUME NEW i \in 1..(Len(l) - 1) PROVE i + 1 \in DOMAIN l /\ i + 1 # 1
    BY <1>4, <2>6
  <2>7. \A i, j \in DOMAIN Tail(l) : Tail(l)[i].upload = Tail(l)[j].upload => i = j
    <3> TAKE i, j \in DOMAIN Tail(l)
    <3>1. Tail(l)[i] = l[i + 1] /\ Tail(l)[j] = l[j + 1] /\ i + 1 \in DOMAIN l /\ j + 1 \in DOMAIN l
      BY <1>4, <2>6
    <3>2. Tail(l)[i].upload = Tail(l)[j].upload => i + 1 = j + 1
      BY <1>6, <3>1
    <3>3. i \in Nat /\ j \in Nat
      BY <1>4
    <3> QED
      BY <3>2, <3>3
  <2>8. 1 \in DOMAIN l /\ \A j \in DOMAIN plan.candidates : plan.candidates[j] # u
    BY <1>4, <1>5, <1>6
  <2>9. ASSUME NEW i \in DOMAIN Tail(l), NEW j \in DOMAIN c PROVE Tail(l)[i].upload # c[j]
    <3>1. Tail(l)[i] = l[i + 1] /\ i + 1 \in DOMAIN l /\ i + 1 # 1
      BY <1>4, <2>6
    <3>2. l[i + 1].upload # u
      BY <1>5, <1>6, <2>8, <3>1
    <3>3. j \in 1..Len(plan.candidates) \/ j = Len(plan.candidates) + 1
      BY <1>3, <2>3
    <3>4. CASE j \in 1..Len(plan.candidates)
      BY <1>3, <1>6, <2>3, <3>1, <3>4
    <3> QED
      BY <2>3, <3>1, <3>2, <3>3, <3>4
  <2>10. \A i \in DOMAIN Tail(l), j \in DOMAIN plan.candidates : Tail(l)[i].upload # plan.candidates[j]
    BY <1>4, <1>6, <2>6
  <2>11. Distinct(c)
    <3> SUFFICES ASSUME NEW i \in DOMAIN c, NEW j \in DOMAIN c, c[i] = c[j] PROVE i = j
      BY DEF Distinct
    <3>1. /\ i \in 1..Len(plan.candidates) \/ i = Len(plan.candidates) + 1
          /\ j \in 1..Len(plan.candidates) \/ j = Len(plan.candidates) + 1
      BY <1>3, <2>3
    <3>2. CASE i \in 1..Len(plan.candidates) /\ j \in 1..Len(plan.candidates)
      BY <1>3, <1>6, <2>3, <3>2 DEF Distinct
    <3>3. CASE ~(i \in 1..Len(plan.candidates)) \/ ~(j \in 1..Len(plan.candidates))
      BY <1>3, <2>3, <2>8, <3>1, <3>3
    <3> QED
      BY <3>2, <3>3
  <2>12. PlanSound'
    BY <1>6, <2>4, <2>5, <2>7, <2>9, <2>10, <2>11 DEF PlanSound
  <2> QED
    BY <1>1, <1>7, <2>5, <2>12, BeforeTheLoop DEF InspectListed
<1>9. CASE ~Live(u)
  <2>1. session' = [session EXCEPT !.at = "done", !.exit = "failure"]
    BY <1>2, <1>5, <1>9 DEF InspectListed
  <2>2. /\ session' \in Sessions /\ session'.at = "done" /\ ~session'.told
        /\ session'.plan = session.plan /\ session'.listing = session.listing
    BY <1>1, <2>1 DEF Sessions
  <2>3. PlanSound'
    BY <2>2 DEF PurgeInv, PlanSound
  <2> QED
    BY <1>1, <1>7, <2>2, <2>3, BeforeTheLoop DEF InspectListed
<1> QED
  BY <1>8, <1>9

LEMMA PlanningEnds ==
  ASSUME PurgeInv, PlanFromStorage \/ PlanFails
  PROVE  PurgeInv'
<1>1. session \in Sessions /\ history \in Histories /\ ~session.told
  BY DEF PurgeInv, PurgeTypes, LoopStarts, PlanFromStorage, PlanFails
<1>2. /\ session' \in Sessions /\ session'.at \in {"confirm", "done"} /\ ~session'.told
      /\ session'.plan = session.plan /\ session'.listing \in {session.listing, <<>>}
  BY <1>1 DEF PlanFromStorage, PlanFails, Planned, Sessions
<1>3. PlanSound'
  BY <1>2 DEF PurgeInv, PlanSound
<1>4. session.at \in {"plan", "inspect", "confirm"}
  BY DEF PlanFromStorage, PlanFails
<1> QED
  BY <1>1, <1>2, <1>3, <1>4, BeforeTheLoop DEF PlanFromStorage, PlanFails

LEMMA PromptEnds ==
  ASSUME PurgeInv, Preview \/ DeclinePurge
  PROVE  PurgeInv'
<1>1. session \in Sessions /\ history \in Histories /\ ~session.told
  BY DEF PurgeInv, PurgeTypes, LoopStarts, Preview, DeclinePurge
<1>2. PICK status \in {"success", "failure"} : session' = [session EXCEPT !.at = "done", !.exit = status]
  BY DEF Preview, DeclinePurge, Done
<1>3. /\ session' \in Sessions /\ session'.at = "done" /\ ~session'.told
      /\ session'.plan = session.plan /\ session'.listing = session.listing
  BY <1>1, <1>2 DEF Sessions
<1>4. PlanSound'
  BY <1>3 DEF PurgeInv, PlanSound
<1>5. ToSet(session.plan.candidates) \subseteq Uploads
  BY <1>1 DEF Sessions, ToSet
<1>6. /\ history' \in Histories /\ history'.removed = history.removed
      /\ history'.everLinked = history.everLinked /\ history'.kept = history.kept
  BY <1>1, <1>5 DEF Histories, Preview, DeclinePurge
<1>7. session.at \in {"plan", "inspect", "confirm"}
  BY DEF Preview, DeclinePurge
<1> QED
  BY <1>3, <1>4, <1>6, <1>7, BeforeTheLoop DEF Preview, DeclinePurge

LEMMA ExecutionKeepsPromises ==
  ASSUME PurgeInv, Execute
  PROVE  PurgeInv'
<1>1. /\ session \in Sessions /\ history \in Histories /\ worker \in Loops /\ ~session.told
      /\ worker.at = "idle" /\ history.removed = {} /\ session.at = "confirm"
      /\ worker.next = 1 /\ worker.items = <<>> /\ worker.step = "inspect" /\ ~worker.linked
  BY DEF PurgeInv, PurgeTypes, LoopStarts, Execute
<1>2. PICK c : c = session.plan.candidates /\ c \in Seq(Uploads)
  BY <1>1 DEF Sessions
<1>3. ToSet(c) \subseteq Uploads /\ Len(c) \in Nat
  BY <1>2 DEF ToSet
<1>4. /\ session' \in Sessions /\ session'.at = "wait" /\ ~session'.told
      /\ session'.plan = session.plan /\ session'.listing = session.listing
  BY <1>1 DEF Sessions, Execute
<1>5. /\ history' \in Histories /\ history'.removed = {} /\ history'.shown = ToSet(c)
      /\ history'.everLinked = history.everLinked /\ history'.kept = history.kept
  BY <1>1, <1>2, <1>3 DEF Histories, Execute
<1>6. /\ worker' \in Loops /\ worker'.at = "run" /\ worker'.ids = c /\ worker'.next = 1
      /\ worker'.items = <<>> /\ worker'.step = "inspect" /\ worker'.linked = FALSE
  BY <1>1, <1>2 DEF Loops, Execute
<1>7. UNCHANGED <<bucket, recorded, options>>
  BY DEF Execute
<1>8. PurgeTypes'
  BY <1>4, <1>5, <1>6, <1>7 DEF PurgeInv, PurgeTypes
<1>9. PlanSound'
  BY <1>4 DEF PurgeInv, PlanSound
<1>10. PromisesSound'
  BY <1>5, <1>7 DEF PurgeInv, PromisesSound, Live, InHistory
<1>11. LoopStarts'
  BY <1>2, <1>4, <1>5, <1>6 DEF LoopStarts
<1>12. ItemsSound'
  <2>1. Len(<<>>) = 0 /\ DOMAIN worker'.items = {}
    BY <1>6
  <2>2. worker'.next <= Len(worker'.ids) + 1
    BY <1>3, <1>6
  <2> QED
    BY <1>5, <1>6, <2>1, <2>2 DEF ItemsSound
<1>13. CurrentSound'
  BY <1>6 DEF CurrentSound
<1>14. RemovedSound'
  BY <1>5 DEF RemovedSound, OnlyWhatWasShown
<1>15. ToldSound'
  BY <1>4 DEF ToldSound
<1> QED
  BY <1>8, <1>9, <1>10, <1>11, <1>12, <1>13, <1>14, <1>15 DEF PurgeInv

-----------------------------------------------------------------------------
(* Purge: the loop.                                                         *)

LEMMA ItemEndsQuietly ==
  ASSUME PurgeInv, Running, NEW outcome \in Outcomes, ItemEnds(outcome),
         UNCHANGED <<bucket, options, session, history>>,
         recorded' \in [Uploads -> RecordedUpload],
         outcome = "deleted" => ~Live(CurrentId)
  PROVE  PurgeInv'
<1>1. StaysGone
  BY DEF StaysGone
<1>2. outcome = "deleted" => ~bucket'[CurrentId].marker
  BY DEF Live
<1>3. /\ worker' \in Loops
      /\ PlanSound' /\ LoopStarts' /\ ItemsSound' /\ ToldSound'
      /\ ~Running' \/ worker.step' = "inspect"
      /\ ~worker.linked'
  BY <1>1, <1>2, OutcomeRecorded
<1>4. PurgeTypes'
  BY <1>3 DEF PurgeInv, PurgeTypes
<1>5. PromisesSound'
  BY DEF PurgeInv, PromisesSound, Live, InHistory
<1>6. CurrentSound'
  BY <1>3 DEF CurrentSound
<1>7. RemovedSound'
  BY DEF PurgeInv, RemovedSound, OnlyWhatWasShown, Live
<1> QED
  BY <1>3, <1>4, <1>5, <1>6, <1>7 DEF PurgeInv

LEMMA StepTaken ==
  ASSUME PurgeInv, Running, UNCHANGED <<bucket, recorded, options, session, history>>,
         worker' \in Loops, worker.at' = worker.at, worker.ids' = worker.ids,
         worker.next' = worker.next, worker.items' = worker.items,
         CurrentSound'
  PROVE  PurgeInv'
<1>1. StaysGone
  BY DEF StaysGone
<1>2. PlanSound' /\ LoopStarts' /\ ItemsSound' /\ ToldSound'
  BY <1>1, LoopGoesOn
<1>3. PurgeTypes'
  BY DEF PurgeInv, PurgeTypes
<1>4. PromisesSound'
  BY DEF PurgeInv, PromisesSound, Live, InHistory
<1>5. RemovedSound'
  BY DEF PurgeInv, RemovedSound, OnlyWhatWasShown, Live
<1> QED
  BY <1>2, <1>3, <1>4, <1>5 DEF PurgeInv

LEMMA FailureKeepsPromises ==
  ASSUME PurgeInv, ItemFails
  PROVE  PurgeInv'
<1>1. recorded' \in [Uploads -> RecordedUpload]
  BY DEF ItemFails, PurgeInv, PurgeTypes
<1>2. "error" \in Outcomes /\ "error" # "deleted"
  BY DEF Outcomes
<1> QED
  BY <1>1, <1>2, ItemEndsQuietly DEF ItemFails

LEMMA InspectKeepsPromises ==
  ASSUME PurgeInv, Inspect
  PROVE  PurgeInv'
<1>1. /\ Running /\ worker \in Loops
      /\ UNCHANGED <<bucket, recorded, options, session, history>>
  BY DEF Inspect, At, PurgeInv, PurgeTypes
<1>2. CASE ItemEnds("versioned")
  <2>1. recorded' \in [Uploads -> RecordedUpload]
    BY <1>1 DEF PurgeInv, PurgeTypes
  <2>2. "versioned" \in Outcomes /\ "versioned" # "deleted"
    BY DEF Outcomes
  <2> QED
    BY <1>1, <1>2, <2>1, <2>2, ItemEndsQuietly
<1>3. CASE GoTo("resolve")
  <2>1. /\ worker' \in Loops /\ worker.at' = worker.at /\ worker.ids' = worker.ids
        /\ worker.next' = worker.next /\ worker.items' = worker.items
        /\ worker.step' = "resolve" /\ worker.linked' = worker.linked
    BY <1>1, <1>3 DEF GoTo, Loops
  <2>2. CurrentSound'
    BY <1>1, <2>1 DEF PurgeInv, CurrentSound
  <2> QED
    BY <1>1, <2>1, <2>2, StepTaken
<1> QED
  BY <1>2, <1>3 DEF Inspect

LEMMA ResolveKeepsPromises ==
  ASSUME PurgeInv, Resolve
  PROVE  PurgeInv'
<1>1. Running /\ worker \in Loops /\ UNCHANGED <<bucket, options, session, history>>
  BY DEF Resolve, At, PurgeInv, PurgeTypes
<1>2. CurrentId \in Uploads /\ bucket[CurrentId].revision \in BOOLEAN
  BY <1>1, CurrentIsShown DEF PurgeInv, PurgeTypes, Directory
<1>3. recorded' \in [Uploads -> RecordedUpload]
  BY <1>2 DEF Resolve, PurgeInv, PurgeTypes, RecordedUpload
<1>4. CASE ~Live(CurrentId)
  <2>1. PICK outcome \in Outcomes : ItemEnds(outcome)
    BY <1>4 DEF Resolve, Outcomes
  <2> QED
    BY <1>1, <1>3, <1>4, <2>1, ItemEndsQuietly
<1>5. CASE Live(CurrentId) /\ ItemEnds("versioned")
  <2>1. "versioned" \in Outcomes /\ "versioned" # "deleted"
    BY DEF Outcomes
  <2> QED
    BY <1>1, <1>3, <1>5, <2>1, ItemEndsQuietly
<1>6. CASE /\ Live(CurrentId) /\ (options.includeVersioned \/ ~bucket[CurrentId].revision)
           /\ worker' = [worker EXCEPT !.step = "list", !.linked = bucket[CurrentId].revision]
           /\ UNCHANGED recorded
  <2>1. /\ worker' \in Loops /\ worker.at' = worker.at /\ worker.ids' = worker.ids
        /\ worker.next' = worker.next /\ worker.items' = worker.items
        /\ worker'.step = "list" /\ worker'.linked = bucket[CurrentId].revision
    BY <1>1, <1>2, <1>6 DEF Loops
  <2>2. CurrentSound'
    BY <1>1, <1>2, <1>6, <2>1 DEF CurrentSound
  <2> QED
    BY <1>1, <1>6, <2>1, <2>2, StepTaken
<1> QED
  BY <1>4, <1>5, <1>6 DEF Resolve

LEMMA ListForDeleteKeepsPromises ==
  ASSUME PurgeInv, ListForDelete
  PROVE  PurgeInv'
<1>1. /\ Running /\ worker \in Loops
      /\ UNCHANGED <<bucket, recorded, options, session, history>>
  BY DEF ListForDelete, At, PurgeInv, PurgeTypes
<1>2. CASE ItemEnds("protected")
  <2>1. recorded' \in [Uploads -> RecordedUpload]
    BY <1>1 DEF PurgeInv, PurgeTypes
  <2>2. "protected" \in Outcomes /\ "protected" # "deleted"
    BY DEF Outcomes
  <2> QED
    BY <1>1, <1>2, <2>1, <2>2, ItemEndsQuietly
<1>3. CASE ~bucket[CurrentId].protected /\ GoTo("reserve")
  <2>1. /\ worker' \in Loops /\ worker.at' = worker.at /\ worker.ids' = worker.ids
        /\ worker.next' = worker.next /\ worker.items' = worker.items
        /\ worker.step' = "reserve" /\ worker.linked' = worker.linked
    BY <1>1, <1>3 DEF GoTo, Loops
  <2>2. CurrentId \notin history.kept /\ CurrentId' = CurrentId
    BY <1>3, <2>1 DEF PurgeInv, PromisesSound, CurrentId
  <2>3. CurrentSound'
    BY <1>1, <2>1, <2>2 DEF PurgeInv, CurrentSound
  <2> QED
    BY <1>1, <2>1, <2>3, StepTaken
<1> QED
  BY <1>2, <1>3 DEF ListForDelete

(* What a step of the deletion leaves of the directories, of this upload    *)
(* and of the others.                                                       *)
LEMMA ReservedKeepsPromises ==
  ASSUME PurgeInv, Running, worker.step = "reserve", Reservable, ReservationMade
  PROVE  /\ bucket' \in [Uploads -> Directory] /\ StaysGone
         /\ \A v \in Uploads : /\ bucket'[v].marker = bucket[v].marker
                               /\ bucket'[v].protected = bucket[v].protected
         /\ ~options.includeVersioned =>
              /\ \A v \in history.everLinked : bucket'[v].marker => bucket'[v].versions = "chain"
              /\ CurrentId \in Sourced => bucket'[CurrentId].versions = "receipt"
<1>2. CurrentId \in Uploads /\ bucket[CurrentId] \in Directory /\ bucket \in [Uploads -> Directory]
  BY CurrentIsShown DEF PurgeInv, PurgeTypes
<1>1. PICK u : u = CurrentId
  OBVIOUS
<1>3. \/ worker.linked /\ bucket' = [bucket EXCEPT ![u].versions = "tombstone"]
      \/ ~worker.linked /\ u \in Sourced /\ bucket[u].versions \in {"absent", "receipt"}
           /\ bucket' = [bucket EXCEPT ![u].versions = "receipt"]
      \/ ~worker.linked /\ u \notin Sourced /\ bucket' = bucket
  BY <1>1 DEF ReservationMade, Reservable
<1>4. /\ bucket' \in [Uploads -> Directory]
      /\ \A v \in Uploads : /\ bucket'[v].marker = bucket[v].marker
                            /\ bucket'[v].protected = bucket[v].protected
                            /\ v # u => bucket'[v] = bucket[v]
  BY <1>1, <1>2, <1>3 DEF Directory, Versions
<1>5. \/ worker.linked /\ options.includeVersioned
      \/ ~worker.linked /\ u \in Sourced /\ bucket'[u].versions = "receipt"
           /\ bucket[u].versions \in {"absent", "receipt"}
      \/ ~worker.linked /\ u \notin Sourced /\ bucket' = bucket
  <2>1. worker.linked => options.includeVersioned
    BY DEF PurgeInv, CurrentSound
  <2>2. bucket' = [bucket EXCEPT ![u].versions = "receipt"] => bucket'[u].versions = "receipt"
    BY <1>1, <1>2 DEF Directory
  <2> QED
    BY <1>3, <2>1, <2>2
<1>6. history.everLinked \subseteq Uploads
  BY DEF PurgeInv, PurgeTypes, Histories
<1>7. ASSUME ~options.includeVersioned, NEW v \in history.everLinked, bucket'[v].marker
      PROVE  bucket'[v].versions = "chain"
  <2>1. bucket[v].marker /\ bucket[v].versions = "chain" /\ v \in Uploads
    BY <1>4, <1>6, <1>7 DEF PurgeInv, PromisesSound, Live, InHistory
  <2>2. v = u => bucket' = bucket
    BY <1>5, <1>7, <2>1
  <2> QED
    BY <1>4, <2>1, <2>2
<1> QED
  BY <1>1, <1>4, <1>5, <1>7 DEF StaysGone

LEMMA PayloadGoneKeepsPromises ==
  ASSUME PurgeInv, Running, PayloadGone
  PROVE  /\ bucket' \in [Uploads -> Directory] /\ StaysGone
         /\ \A v \in Uploads : /\ bucket'[v].marker = bucket[v].marker
                               /\ bucket'[v].protected = bucket[v].protected
                               /\ bucket'[v].versions = bucket[v].versions
<1>1. CurrentId \in Uploads /\ bucket \in [Uploads -> Directory]
  BY CurrentIsShown DEF PurgeInv, PurgeTypes
<1> QED
  BY <1>1 DEF PayloadGone, Directory, StaysGone

(* Nothing is removed by a step that leaves every marker and protection.    *)
LEMMA NothingRemoved ==
  ASSUME PurgeInv, UNCHANGED <<options, history>>,
         \A v \in Uploads : /\ bucket'[v].marker = bucket[v].marker
                           /\ bucket'[v].protected = bucket[v].protected,
         ~options.includeVersioned =>
           \A v \in history.everLinked : bucket'[v].marker => bucket'[v].versions = "chain"
  PROVE  PromisesSound' /\ RemovedSound'
<1>1. history.kept \subseteq Uploads /\ history.everLinked \subseteq Uploads
      /\ history.removed \subseteq Uploads
  BY DEF PurgeInv, PurgeTypes, Histories
<1>2. PromisesSound'
  BY <1>1 DEF PurgeInv, PromisesSound, Live, InHistory
<1>3. RemovedSound'
  BY <1>1 DEF PurgeInv, RemovedSound, OnlyWhatWasShown, Live
<1> QED
  BY <1>2, <1>3

LEMMA ReserveKeepsPromises ==
  ASSUME PurgeInv, Reserve
  PROVE  PurgeInv'
<1>1. /\ Running /\ worker \in Loops /\ UNCHANGED <<recorded, options, session, history>>
      /\ worker.step = "reserve"
  BY DEF Reserve, At, PurgeInv, PurgeTypes
<1>2. CurrentId \in Uploads
  BY <1>1, CurrentIsShown
<1>3. CASE UNCHANGED bucket /\ ItemEnds(Found)
  <2>1. recorded' \in [Uploads -> RecordedUpload]
    BY <1>1 DEF PurgeInv, PurgeTypes
  <2>2. Found \in Outcomes /\ Found # "deleted"
    BY DEF Found, Outcomes
  <2> QED
    BY <1>1, <1>3, <2>1, <2>2, ItemEndsQuietly
<1>4. CASE Reservable /\ ReservationMade /\ GoTo("remove")
  <2>1. /\ worker' \in Loops /\ worker.at' = worker.at /\ worker.ids' = worker.ids
        /\ worker.next' = worker.next /\ worker.items' = worker.items
        /\ worker.step' = "remove" /\ worker.linked' = worker.linked
    BY <1>1, <1>4 DEF GoTo, Loops
  <2>2. /\ bucket' \in [Uploads -> Directory] /\ StaysGone
        /\ \A v \in Uploads : /\ bucket'[v].marker = bucket[v].marker
                              /\ bucket'[v].protected = bucket[v].protected
        /\ ~options.includeVersioned =>
             /\ \A v \in history.everLinked : bucket'[v].marker => bucket'[v].versions = "chain"
             /\ CurrentId \in Sourced => bucket'[CurrentId].versions = "receipt"
    BY <1>1, <1>4, ReservedKeepsPromises
  <2>3. PlanSound' /\ LoopStarts' /\ ItemsSound' /\ ToldSound' /\ Running' /\ CurrentId' = CurrentId
    BY <1>1, <2>1, <2>2, LoopGoesOn
  <2>4. PurgeTypes'
    BY <1>1, <2>1, <2>2 DEF PurgeInv, PurgeTypes
  <2>5. PromisesSound' /\ RemovedSound'
    BY <1>1, <2>2, NothingRemoved
  <2>6. CurrentSound'
    <3>1. ~options.includeVersioned => ~worker.linked
      BY DEF PurgeInv, CurrentSound
    <3>2. CurrentId \notin history.kept
      BY <1>1 DEF PurgeInv, CurrentSound
    <3> HIDE DEF CurrentId
    <3> QED
      BY <1>1, <2>1, <2>2, <2>3, <3>1, <3>2 DEF CurrentSound
  <2> QED
    BY <2>3, <2>4, <2>5, <2>6 DEF PurgeInv
<1> QED
  BY <1>3, <1>4 DEF Reserve

LEMMA RemovePayloadKeepsPromises ==
  ASSUME PurgeInv, RemovePayload
  PROVE  PurgeInv'
<1>1. /\ Running /\ worker \in Loops /\ UNCHANGED <<recorded, options, session, history>>
      /\ worker.step = "remove" /\ GoTo("unmark") /\ PayloadGone
  BY DEF RemovePayload, At, PurgeInv, PurgeTypes
<1>2. CurrentId \in Uploads /\ history.everLinked \subseteq Uploads
  BY <1>1, CurrentIsShown DEF PurgeInv, PurgeTypes, Histories
<1>3. /\ worker' \in Loops /\ worker.at' = worker.at /\ worker.ids' = worker.ids
      /\ worker.next' = worker.next /\ worker.items' = worker.items
      /\ worker.step' = "unmark" /\ worker.linked' = worker.linked
  BY <1>1 DEF GoTo, Loops
<1>4. /\ bucket' \in [Uploads -> Directory] /\ StaysGone
      /\ \A v \in Uploads : /\ bucket'[v].marker = bucket[v].marker
                            /\ bucket'[v].protected = bucket[v].protected
                            /\ bucket'[v].versions = bucket[v].versions
  BY <1>1, PayloadGoneKeepsPromises
<1>5. PlanSound' /\ LoopStarts' /\ ItemsSound' /\ ToldSound' /\ Running' /\ CurrentId' = CurrentId
  BY <1>1, <1>3, <1>4, LoopGoesOn
<1>6. PurgeTypes'
  BY <1>1, <1>3, <1>4 DEF PurgeInv, PurgeTypes
<1>7. ~options.includeVersioned =>
        \A v \in history.everLinked : bucket'[v].marker => bucket'[v].versions = "chain"
  BY <1>2, <1>4 DEF PurgeInv, PromisesSound, Live, InHistory
<1>8. PromisesSound' /\ RemovedSound'
  BY <1>1, <1>4, <1>7, NothingRemoved
<1>9. CurrentSound'
  BY <1>1, <1>2, <1>3, <1>4, <1>5 DEF PurgeInv, CurrentSound, Live
<1> QED
  BY <1>5, <1>6, <1>8, <1>9 DEF PurgeInv

(* The marker goes, and what the item says of it is that it is deleted or   *)
(* that it failed.                                                          *)
LEMMA MarkerGoneKeepsPromises ==
  ASSUME PurgeInv, Running, worker.step = "unmark", MarkerGone,
         NEW outcome \in {"deleted", "error"}, ItemEnds(outcome), UNCHANGED <<options, session>>,
         recorded' \in [Uploads -> RecordedUpload]
  PROVE  PurgeInv'
<1>1. /\ Running /\ worker \in Loops /\ UNCHANGED <<options, session>>
      /\ worker.step = "unmark" /\ ItemEnds(outcome)
  BY DEF PurgeInv, PurgeTypes
<1>2. PICK u : u = CurrentId
  OBVIOUS
<1>3. /\ u \in Uploads /\ u \in history.shown /\ u \notin history.removed
      /\ bucket \in [Uploads -> Directory] /\ history \in Histories
  BY <1>1, <1>2, CurrentIsShown DEF PurgeInv, PurgeTypes
<1>4. /\ bucket' \in [Uploads -> Directory] /\ bucket'[u].marker = FALSE
      /\ \A v \in Uploads : /\ bucket'[v].protected = bucket[v].protected
                            /\ bucket'[v].versions = bucket[v].versions
                            /\ v # u => bucket'[v] = bucket[v]
  <2>1. bucket' = [bucket EXCEPT ![u].marker = FALSE]
    BY <1>2 DEF MarkerGone
  <2>2. PICK d : d = [bucket[u] EXCEPT !.marker = FALSE]
    OBVIOUS
  <2>3. /\ d \in Directory /\ d.marker = FALSE /\ d.protected = bucket[u].protected
        /\ d.versions = bucket[u].versions
    BY <1>3, <2>2 DEF Directory
  <2>4. bucket' = [bucket EXCEPT ![u] = d]
    BY <1>3, <2>1, <2>2
  <2>5. /\ bucket' \in [Uploads -> Directory] /\ bucket'[u] = d
        /\ \A v \in Uploads : v # u => bucket'[v] = bucket[v]
    BY <1>3, <2>3, <2>4
  <2> QED
    BY <2>3, <2>5
<1>6. history' = [history EXCEPT !.removed = IF Live(u) THEN history.removed \cup {u}
                                             ELSE history.removed]
  BY <1>2 DEF MarkerGone
<1>7. /\ history' \in Histories /\ history'.shown = history.shown /\ history'.kept = history.kept
      /\ history'.everLinked = history.everLinked
      /\ \/ history'.removed = history.removed
         \/ Live(u) /\ history'.removed = history.removed \cup {u}
  BY <1>3, <1>6 DEF Histories
<1>8. StaysGone
  BY <1>4 DEF StaysGone
<1>9. /\ worker' \in Loops
      /\ PlanSound' /\ LoopStarts' /\ ItemsSound' /\ ToldSound'
      /\ ~Running' \/ worker.step' = "inspect"
      /\ ~worker.linked'
  <2>1. outcome \in Outcomes
    BY DEF Outcomes
  <2>2. ~bucket'[CurrentId].marker
    BY <1>2, <1>4
  <2>3. \/ history.removed' = history.removed
        \/ history.removed' = history.removed \cup {CurrentId}
    BY <1>2, <1>7
  <2> QED
    BY <1>1, <1>7, <1>8, <2>1, <2>2, <2>3, OutcomeRecorded
<1>10. PurgeTypes'
  BY <1>1, <1>4, <1>7, <1>9 DEF PurgeInv, PurgeTypes
<1>11. history.kept \subseteq Uploads /\ history.everLinked \subseteq Uploads
       /\ history.removed \subseteq Uploads
  BY <1>3 DEF Histories
<1>12. PromisesSound'
  <2>1. \A v \in history.kept : bucket'[v].protected
    BY <1>4, <1>11 DEF PurgeInv, PromisesSound
  <2>2. ASSUME ~options.includeVersioned, NEW v \in history.everLinked, bucket'[v].marker
        PROVE  bucket'[v].versions = "chain"
    <3>1. v # u /\ v \in Uploads
      BY <1>4, <1>11, <2>2
    <3> QED
      BY <1>4, <2>2, <3>1 DEF PurgeInv, PromisesSound, Live, InHistory
  <2> QED
    BY <1>1, <1>7, <2>1, <2>2 DEF PurgeInv, PromisesSound, Live, InHistory
<1>13. CurrentSound'
  BY <1>9 DEF CurrentSound
<1>14. RemovedSound'
  <2>1. \A v \in history'.removed : ~bucket'[v].marker
    <3> TAKE v \in history'.removed
    <3>1. v = u \/ v \in history.removed
      BY <1>7
    <3>2. CASE v = u
      BY <1>4, <3>2
    <3>3. CASE v # u
      BY <1>4, <1>11, <3>1, <3>3 DEF PurgeInv, RemovedSound, Live
    <3> QED
      BY <3>2, <3>3
  <2>2. u \notin history.kept
    BY <1>1, <1>2 DEF PurgeInv, CurrentSound
  <2>3. ~options.includeVersioned /\ Live(u) => u \notin history.everLinked
    <3> SUFFICES ASSUME ~options.includeVersioned, Live(u), u \in history.everLinked PROVE FALSE
      OBVIOUS
    <3>1. u \in Sourced /\ bucket[u].versions = "chain"
      BY DEF PurgeInv, PromisesSound, InHistory
    <3>2. bucket[u].versions = "receipt"
      BY <1>1, <1>2, <3>1 DEF PurgeInv, CurrentSound
    <3> QED
      BY <3>1, <3>2
  <2>4. OnlyWhatWasShown
    BY DEF PurgeInv, RemovedSound
  <2>5. OnlyWhatWasShown'
    BY <1>1, <1>3, <1>7, <2>2, <2>3, <2>4 DEF OnlyWhatWasShown
  <2> QED
    BY <2>1, <2>5 DEF RemovedSound, Live
<1> QED
  BY <1>9, <1>10, <1>12, <1>13, <1>14 DEF PurgeInv

LEMMA RemoveMarkerKeepsPromises ==
  ASSUME PurgeInv, RemoveMarker
  PROVE  PurgeInv'
<1>1. /\ Running /\ worker.step = "unmark" /\ MarkerGone /\ ItemEnds("deleted")
      /\ UNCHANGED <<options, session>>
  BY DEF RemoveMarker, At
<1>2. recorded' \in [Uploads -> RecordedUpload]
  BY <1>1, CurrentIsShown DEF RemoveMarker, PurgeInv, PurgeTypes, RecordedUpload
<1> QED
  BY <1>1, <1>2, MarkerGoneKeepsPromises

(* An answer that is lost leaves the step's effect, and a failed item.      *)
LEMMA LostAnswerKeepsPromises ==
  ASSUME PurgeInv, AnswerLost
  PROVE  PurgeInv'
<1>1. /\ Running /\ ItemEnds("error") /\ UNCHANGED <<recorded, options, session>>
      /\ recorded' \in [Uploads -> RecordedUpload]
  BY DEF AnswerLost, At, PurgeInv, PurgeTypes
<1>2. CASE worker.step = "unmark" /\ MarkerGone
  BY <1>1, <1>2, MarkerGoneKeepsPromises
<1>3. CASE /\ UNCHANGED history /\ bucket' \in [Uploads -> Directory] /\ StaysGone
           /\ \A v \in Uploads : /\ bucket'[v].marker = bucket[v].marker
                                 /\ bucket'[v].protected = bucket[v].protected
           /\ ~options.includeVersioned =>
                \A v \in history.everLinked : bucket'[v].marker => bucket'[v].versions = "chain"
  <2>1. "error" \in Outcomes /\ "error" # "deleted"
    BY DEF Outcomes
  <2>2. /\ worker' \in Loops
        /\ PlanSound' /\ LoopStarts' /\ ItemsSound' /\ ToldSound'
        /\ ~Running' \/ worker.step' = "inspect"
        /\ ~worker.linked'
    BY <1>1, <1>3, <2>1, OutcomeRecorded
  <2>3. PurgeTypes'
    BY <1>1, <1>3, <2>2 DEF PurgeInv, PurgeTypes
  <2>4. PromisesSound' /\ RemovedSound'
    BY <1>1, <1>3, NothingRemoved
  <2>5. CurrentSound'
    BY <2>2 DEF CurrentSound
  <2> QED
    BY <2>2, <2>3, <2>4, <2>5 DEF PurgeInv
<1>4. CASE worker.step = "reserve" /\ Reservable /\ ReservationMade /\ UNCHANGED history
  BY <1>1, <1>3, <1>4, ReservedKeepsPromises
<1>5. CASE worker.step = "remove" /\ PayloadGone /\ UNCHANGED history
  <2>1. /\ bucket' \in [Uploads -> Directory] /\ StaysGone
        /\ \A v \in Uploads : /\ bucket'[v].marker = bucket[v].marker
                              /\ bucket'[v].protected = bucket[v].protected
                              /\ bucket'[v].versions = bucket[v].versions
    BY <1>1, <1>5, PayloadGoneKeepsPromises
  <2>2. history.everLinked \subseteq Uploads
    BY DEF PurgeInv, PurgeTypes, Histories
  <2>3. ~options.includeVersioned =>
          \A v \in history.everLinked : bucket'[v].marker => bucket'[v].versions = "chain"
    BY <2>1, <2>2 DEF PurgeInv, PromisesSound, Live, InHistory
  <2> QED
    BY <1>3, <1>5, <2>1, <2>3
<1>6. \/ worker.step = "unmark" /\ MarkerGone
      \/ worker.step = "reserve" /\ Reservable /\ ReservationMade /\ UNCHANGED history
      \/ worker.step = "remove" /\ PayloadGone /\ UNCHANGED history
  BY DEF AnswerLost, At
<1> QED
  BY <1>2, <1>4, <1>5, <1>6

LEMMA DeadlineKeepsPromises ==
  ASSUME PurgeInv, PurgeExpires
  PROVE  PurgeInv'
<1>1. /\ worker \in Loops /\ worker.at = "run"
      /\ UNCHANGED <<bucket, recorded, options, session, history>>
  BY DEF PurgeExpires, PurgeInv, PurgeTypes
<1>2. /\ worker' \in Loops /\ worker.at' = worker.at /\ worker.ids' = worker.ids
      /\ worker.next' = worker.next /\ worker.items' = worker.items
      /\ worker.step' = worker.step /\ worker.linked' = worker.linked
  BY <1>1 DEF PurgeExpires, Loops
<1>3. PurgeTypes'
  BY <1>1, <1>2 DEF PurgeInv, PurgeTypes
<1>4. PlanSound' /\ PromisesSound' /\ RemovedSound'
  BY <1>1 DEF PurgeInv, PlanSound, PromisesSound, RemovedSound, OnlyWhatWasShown, Live, InHistory
<1>5. LoopStarts'
  BY <1>1, <1>2 DEF PurgeInv, LoopStarts
<1>6. ItemsSound'
  BY <1>1, <1>2 DEF PurgeInv, ItemsSound, Live
<1>7. CurrentSound'
  BY <1>1, <1>2 DEF PurgeInv, CurrentSound, Running, CurrentId, Live
<1>8. ToldSound'
  BY <1>1, <1>2 DEF PurgeInv, ToldSound
<1> QED
  BY <1>3, <1>4, <1>5, <1>6, <1>7, <1>8 DEF PurgeInv

LEMMA WorkEndsKeepsPromises ==
  ASSUME PurgeInv, WorkEnds
  PROVE  PurgeInv'
<1>1. /\ worker \in Loops /\ worker.at = "run" /\ worker.next > Len(worker.ids)
      /\ UNCHANGED <<bucket, recorded, options, session, history>>
  BY DEF WorkEnds, PurgeInv, PurgeTypes
<1>2. /\ worker' \in Loops /\ worker.at' = "ended" /\ worker.ids' = worker.ids
      /\ worker.next' = worker.next /\ worker.items' = worker.items
      /\ worker.step' = worker.step /\ worker.linked' = worker.linked
  BY <1>1 DEF WorkEnds, Loops
<1>3. PurgeTypes'
  BY <1>1, <1>2 DEF PurgeInv, PurgeTypes
<1>4. PlanSound' /\ PromisesSound' /\ RemovedSound'
  BY <1>1 DEF PurgeInv, PlanSound, PromisesSound, RemovedSound, OnlyWhatWasShown, Live, InHistory
<1>5. LoopStarts'
  <2>1. worker.next = Len(worker.ids) + 1
    <3>1. worker.next \in Nat /\ Len(worker.ids) \in Nat
      BY <1>1 DEF Loops
    <3> QED
      BY <1>1, <3>1 DEF PurgeInv, ItemsSound
  <2> QED
    BY <1>1, <1>2, <2>1 DEF PurgeInv, LoopStarts
<1>6. ItemsSound'
  BY <1>1, <1>2 DEF PurgeInv, ItemsSound, Live
<1>7. CurrentSound'
  BY <1>1, <1>2 DEF PurgeInv, CurrentSound, Running
<1>8. ToldSound'
  BY <1>1, <1>2 DEF PurgeInv, ToldSound
<1> QED
  BY <1>3, <1>4, <1>5, <1>6, <1>7, <1>8 DEF PurgeInv

(* The command ends while the loop stands still or works on.                *)
LEMMA CommandEnds ==
  ASSUME PurgeInv, UNCHANGED <<bucket, recorded, options, worker, history>>,
         session' \in Sessions, session'.at = "done", session.at = "wait",
         session'.plan = session.plan, session'.listing = session.listing, ToldSound'
  PROVE  PurgeInv'
<1>1. PurgeTypes'
  BY DEF PurgeInv, PurgeTypes
<1>2. PlanSound'
  BY DEF PurgeInv, PlanSound
<1>3. PromisesSound' /\ RemovedSound'
  BY DEF PurgeInv, PromisesSound, RemovedSound, OnlyWhatWasShown, Live, InHistory
<1>4. LoopStarts'
  BY DEF PurgeInv, LoopStarts
<1>5. ItemsSound'
  BY DEF PurgeInv, ItemsSound, Live
<1>6. CurrentSound'
  BY DEF PurgeInv, CurrentSound, Running, CurrentId, Live
<1> QED
  BY <1>1, <1>2, <1>3, <1>4, <1>5, <1>6 DEF PurgeInv

LEMMA SummaryKeepsPromises ==
  ASSUME PurgeInv, Summarise
  PROVE  PurgeInv'
<1>1. /\ session \in Sessions /\ worker \in Loops /\ session.at = "wait" /\ worker.at = "ended"
      /\ UNCHANGED <<bucket, recorded, options, worker, history>>
  BY DEF Summarise, PurgeInv, PurgeTypes
<1>2. PICK status \in {"success", "failure"} :
        /\ session' = [session EXCEPT !.at = "done", !.told = TRUE, !.exit = status]
        /\ status = "success" <=> ~CommandFails(worker.items)
  BY DEF Summarise
<1>3. /\ session' \in Sessions /\ session'.at = "done" /\ session'.plan = session.plan
      /\ session'.listing = session.listing /\ session'.exit = status
  BY <1>1, <1>2 DEF Sessions
<1>4. CommandFails(worker.items) <=> FailedItems(worker.items) > 0
  BY DEF CommandFails, ClientError, ServerAnswer, PurgeError
<1>5. /\ FailedItems(worker.items) = Tally(worker.items, "error")
      /\ Tally(worker.items, "error") \in Nat
  <2>1. worker.items \in Seq(Outcomes)
    BY <1>1 DEF Loops
  <2>2. Len(worker.items) \in Nat /\ DOMAIN worker.items = 1..Len(worker.items)
    BY <2>1
  <2>3. IsFiniteSet(DOMAIN worker.items)
    BY <2>2, FS_Interval
  <2>4. PICK S : S = {i \in DOMAIN worker.items : worker.items[i] = "error"}
    OBVIOUS
  <2>5. IsFiniteSet(S)
    BY <2>3, <2>4, FS_Subset
  <2>6. Cardinality(S) \in Nat
    BY <2>5, FS_CardinalityType
  <2> QED
    BY <2>4, <2>6 DEF FailedItems, Tally
<1>6. status = "success" <=> Tally(worker.items, "error") = 0
  BY <1>2, <1>4, <1>5
<1>7. ToldSound'
  BY <1>1, <1>3, <1>6 DEF ToldSound, Tally
<1> QED
  BY <1>1, <1>3, <1>7, CommandEnds

LEMMA AbandonKeepsPromises ==
  ASSUME PurgeInv, AbandonPurge
  PROVE  PurgeInv'
<1>1. /\ session \in Sessions /\ session.at = "wait" /\ ~session.told
      /\ UNCHANGED <<bucket, recorded, options, worker, history>>
  BY DEF AbandonPurge, PurgeInv, PurgeTypes, ToldSound
<1>2. /\ session' \in Sessions /\ session'.at = "done" /\ session'.plan = session.plan
      /\ session'.listing = session.listing /\ ~session'.told
  BY <1>1 DEF AbandonPurge, Done, Sessions
<1>3. ToldSound'
  BY <1>2 DEF ToldSound
<1> QED
  BY <1>1, <1>2, <1>3, CommandEnds

-----------------------------------------------------------------------------
(* Purge: what the invariant shows.                                         *)

LEMMA PurgeStep ==
  PurgeInv /\ [PurgeNext]_purgeVars => PurgeInv'
<1> SUFFICES ASSUME PurgeInv, [PurgeNext]_purgeVars PROVE PurgeInv'
  OBVIOUS
<1>1. CASE Session
  BY <1>1, ManifestPlanKeepsPromises, ListingKeepsPromises, InspectionKeepsPromises, PlanningEnds,
     PromptEnds, ExecutionKeepsPromises, InspectKeepsPromises, ResolveKeepsPromises,
     ListForDeleteKeepsPromises, ReserveKeepsPromises, RemovePayloadKeepsPromises,
     RemoveMarkerKeepsPromises, WorkEndsKeepsPromises, SummaryKeepsPromises DEF Session
<1>2. CASE Trouble
  BY <1>2, PlanningEnds, PromptEnds, FailureKeepsPromises, LostAnswerKeepsPromises, DeadlineKeepsPromises,
     AbandonKeepsPromises DEF Trouble
<1>3. ASSUME NEW u \in Uploads,
             \/ ProtectElsewhere(u) \/ UnprotectElsewhere(u) \/ LinkElsewhere(u)
             \/ DeleteElsewhere(u) \/ SyncElsewhere(u)
      PROVE  PurgeInv'
  BY <1>3, ProtectKeepsPromises, UnprotectKeepsPromises, LinkKeepsPromises, DeleteKeepsPromises,
     SyncKeepsPromises
<1>4. CASE UNCHANGED purgeVars
  <2>1. recorded' \in [Uploads -> RecordedUpload]
    BY <1>4 DEF purgeVars, PurgeInv, PurgeTypes
  <2> QED
    BY <1>4, <2>1, ManifestOnly DEF purgeVars
<1> QED
  BY <1>1, <1>2, <1>3, <1>4 DEF PurgeNext

LEMMA PurgeShows ==
  ASSUME PurgeInv
  PROVE  PurgeTrue
<1>1. OnlyWhatWasShown
  BY DEF PurgeInv, RemovedSound
<1>2. ASSUME session.told
      PROVE  /\ worker.at = "ended" /\ worker.ids = session.plan.candidates
             /\ Len(worker.items) = Len(worker.ids) /\ worker.items \in Seq(Outcomes)
             /\ session.exit = "success" <=> Tally(worker.items, "error") = 0
  <2>1. worker.at = "ended" /\ (session.exit = "success" <=> Tally(worker.items, "error") = 0)
    BY <1>2 DEF PurgeInv, ToldSound
  <2>2. worker.ids = session.plan.candidates /\ worker.next = Len(worker.ids) + 1
    BY <2>1 DEF PurgeInv, LoopStarts
  <2>3. worker.items \in Seq(Outcomes) /\ worker.ids \in Seq(Uploads)
    BY DEF PurgeInv, PurgeTypes, Loops
  <2>4. Len(worker.items) = worker.next - 1
    BY DEF PurgeInv, ItemsSound
  <2> QED
    BY <2>1, <2>2, <2>3, <2>4
<1>3. SummaryTrue
  BY <1>2 DEF SummaryTrue, PurgeInv, ItemsSound
<1> QED
  BY <1>1, <1>3 DEF PurgeTrue

LEMMA PurgeInvariance == PurgeSpec => []PurgeInv
<1>1. PurgeInit => PurgeInv
  BY PurgeStarts
<1>2. PurgeInv /\ [PurgeNext]_purgeVars => PurgeInv'
  BY PurgeStep
<1> QED
  BY <1>1, <1>2, PTL DEF PurgeSpec

(* A purge removes nothing but what it showed, nothing it promised to keep  *)
(* and, unless told to, nothing that ever joined a history; and its summary *)
(* answers for every upload: what it calls purged is gone, what it removed  *)
(* it calls purged or, when the answer to that was lost, failed, and it     *)
(* succeeds exactly when nothing failed, whatever other people do to the    *)
(* uploads between the plan and the summary                                 *)
(* (cli/purge.go runPurge, purge.go PlanPurge and Purge, delete.go).        *)
THEOREM PurgeKeepsItsWord == PurgeSpec => []PurgeTrue
<1>1. PurgeInv => PurgeTrue
  BY PurgeShows
<1> QED
  BY <1>1, PurgeInvariance, PTL

-----------------------------------------------------------------------------
(* A bulk upgrade: what holds of it throughout.                             *)

PlannedItems == [document : Documents, state : PlanState, version : Nat]
Upgradings == [at : {"start", "plan", "confirm", "execute", "done"}, profile : Nat,
               plan : Seq(PlannedItems), chosen : Seq(PlannedItems),
               exit : {NotYet, "success", "failure"}, failed : Nat, upgraded : Nat]
Pools == [phase : {NotYet, "plan", "execute"}, jobs : Seq(PlannedItems), next : Nat,
          open : BOOLEAN, expired : BOOLEAN, worker : [Workers -> Nat], answers : Seq(Answer)]

BulkTypes ==
  /\ storage \in [Documents -> [state : DocumentState, version : Nat]]
  /\ mode \in {"one", "all", "server"}
  /\ upgrading \in Upgradings /\ upgrading.profile \in 1..Len(PlannedProfiles)
  /\ pool \in Pools
  /\ work \in [Documents -> Nat]

(* The merged plan has one item for each identity, so it may name a document *)
(* once as invalid and once with a key; what is chosen of it and handed out  *)
(* has one item for each document.                                           *)
OneItemEach(items) == \A i, j \in DOMAIN items : items[i].document = items[j].document => i = j
OneIdentityEach(items) == \A i, j \in DOMAIN items : Identity(items[i]) = Identity(items[j]) => i = j
JobsSound ==
  /\ OneIdentityEach(upgrading.plan) /\ OneItemEach(upgrading.chosen) /\ OneItemEach(pool.jobs)

(* The pool's indices: below next they are handed out, each to one worker.  *)
PoolSound ==
  /\ pool.next \in 1..(Len(pool.jobs) + 1)
  /\ Len(pool.answers) = Len(pool.jobs)
  /\ \A w \in Workers : pool.worker[w] \in 0..(pool.next - 1)
  /\ \A v, w \in Workers : pool.worker[v] = pool.worker[w] /\ pool.worker[v] # Idle => v = w

(* The command and its pool go through the phases together.                 *)
PhaseSound ==
  /\ upgrading.at = "plan" <=> pool.phase = "plan"
  /\ upgrading.at = "execute" <=> pool.phase = "execute"
  /\ upgrading.at \notin {"plan", "execute"} => Drained
  /\ upgrading.at \in {"start", "confirm"} => pool = NoPool
  /\ upgrading.at = "execute" => pool.jobs = upgrading.chosen

(* Only what was handed out for execution has been worked on.               *)
WorkSound ==
  /\ upgrading.at \in {"start", "plan", "confirm"} => \A d \in Documents : work[d] = 0
  /\ UpgradedOnce
  /\ upgrading.at = "execute" =>
       \A d \in Documents : work[d] # 0 => \E i \in 1..(pool.next - 1) : pool.jobs[i].document = d

(* While the pool executes, an index without an answer is still to be handed *)
(* out or in the hands of a worker, and no answer flatters.                  *)
AnswersSound ==
  upgrading.at = "execute" =>
    \A i \in DOMAIN pool.jobs :
      /\ pool.answers[i] = "none" =>
           \/ pool.open /\ i >= pool.next
           \/ \E w \in Workers : pool.worker[w] = i
      /\ pool.answers[i] \in {"upgraded", "unchanged"} => storage[pool.jobs[i].document].state # "old"

(* Once it is over, an answer that is kept is one of the chosen documents'. *)
ReportSound ==
  /\ ReportTrue
  /\ upgrading.at = "done" /\ pool.answers # <<>> => Len(pool.answers) = Len(upgrading.chosen)

BulkInv ==
  /\ BulkTypes /\ JobsSound /\ PoolSound /\ PhaseSound
  /\ WorkSound /\ AnswersSound /\ ReportSound

-----------------------------------------------------------------------------
(* A bulk upgrade: what is picked of a sequence.                            *)

LEMMA PickedIs ==
  ASSUME NEW T, NEW s \in Seq(T), NEW I, I \subseteq DOMAIN s
  PROVE  /\ Picked(s, I) \in Seq(T)
         /\ \E f : /\ f \in [DOMAIN Picked(s, I) -> I]
                   /\ \A i, j \in DOMAIN Picked(s, I) : f[i] = f[j] => i = j
                   /\ \A i \in DOMAIN Picked(s, I) : Picked(s, I)[i] = s[f[i]]
<1>1. IsFiniteSet(I) /\ I \subseteq Int
  <2>1. DOMAIN s = 1..Len(s) /\ Len(s) \in Nat
    OBVIOUS
  <2>2. IsFiniteSet(DOMAIN s)
    BY <2>1, FS_Interval
  <2>3. IsFiniteSet(I)
    BY <2>2, FS_Subset
  <2> QED
    BY <2>1, <2>3
<1>2. PICK n, f, p : n = Cardinality(I) /\ f = InOrder(I) /\ p = Picked(s, I)
  OBVIOUS
<1>3. n \in Nat /\ f \in [1..n -> I] /\ \A i, j \in 1..n : f[i] = f[j] => i = j
  BY <1>1, <1>2, InOrderIs
<1>4. p = [k \in 1..n |-> s[f[k]]]
  BY <1>2 DEF Picked
<1>5. \A i \in 1..n : s[f[i]] \in T
  BY <1>3
<1>6. p \in [1..n -> T]
  BY <1>4, <1>5
<1>7. p \in Seq(T)
  BY <1>3, <1>6
<1>8. DOMAIN p = 1..n
  BY <1>4
<1> QED
  BY <1>2, <1>3, <1>4, <1>7, <1>8

LEMMA DeduplicatedIs ==
  ASSUME NEW documents \in Seq(Documents)
  PROVE  /\ Deduplicated(documents) \in Seq(Documents)
         /\ \A i, j \in DOMAIN Deduplicated(documents) :
              Deduplicated(documents)[i] = Deduplicated(documents)[j] => i = j
<1>1. PICK I : I = {i \in DOMAIN documents : \A j \in 1..(i - 1) : documents[j] # documents[i]}
  OBVIOUS
<1>2. I \subseteq DOMAIN documents /\ I \subseteq Nat \ {0}
  BY <1>1
<1>3. PICK p : p = Picked(documents, I)
  OBVIOUS
<1>4. p \in Seq(Documents)
  BY <1>2, <1>3, PickedIs
<1>5. PICK f : /\ f \in [DOMAIN p -> I]
               /\ \A i, j \in DOMAIN p : f[i] = f[j] => i = j
               /\ \A i \in DOMAIN p : p[i] = documents[f[i]]
  BY <1>2, <1>3, PickedIs
<1>6. ASSUME NEW a \in I, NEW b \in I, documents[a] = documents[b] PROVE a = b
  <2>1. a < b => a \in 1..(b - 1)
    BY <1>2
  <2>2. b < a => b \in 1..(a - 1)
    BY <1>2
  <2>3. a \in Nat /\ b \in Nat
    BY <1>2
  <2>4. ~(a < b)
    BY <1>1, <1>6, <2>1
  <2>5. ~(b < a)
    BY <1>1, <1>6, <2>2
  <2> QED
    BY <2>3, <2>4, <2>5
<1>7. \A i, j \in DOMAIN p : p[i] = p[j] => i = j
  <2> TAKE i, j \in DOMAIN p
  <2>1. f[i] \in I /\ f[j] \in I
    BY <1>5
  <2> QED
    BY <1>5, <1>6, <2>1
<1>8. Deduplicated(documents) = p
  BY <1>1, <1>3 DEF Deduplicated
<1> QED
  BY <1>4, <1>7, <1>8

LEMMA ItemsAre ==
  ASSUME NEW items \in Seq(PlannedItems)
  PROVE  \A i \in DOMAIN items : items[i] \in PlannedItems /\ items[i].document \in Documents
<1>1. \A i \in DOMAIN items : items[i] \in PlannedItems
  OBVIOUS
<1> QED
  BY <1>1 DEF PlannedItems

LEMMA UpgradeableIs ==
  ASSUME NEW plan \in Seq(PlannedItems), OneIdentityEach(plan)
  PROVE  Upgradeable(plan) \in Seq(PlannedItems) /\ OneItemEach(Upgradeable(plan))
<1>1. PICK I : I = {i \in DOMAIN plan : plan[i].state = "upgradeable"}
  OBVIOUS
<1>2. PICK p : p = Picked(plan, I)
  OBVIOUS
<1>20. I \subseteq DOMAIN plan
  BY <1>1
<1>3. p \in Seq(PlannedItems)
  BY <1>2, <1>20, PickedIs
<1>4. PICK f : /\ f \in [DOMAIN p -> I]
               /\ \A i, j \in DOMAIN p : f[i] = f[j] => i = j
               /\ \A i \in DOMAIN p : p[i] = plan[f[i]]
  BY <1>2, <1>20, PickedIs
<1>5. OneItemEach(p)
  <2> SUFFICES ASSUME NEW i \in DOMAIN p, NEW j \in DOMAIN p, p[i].document = p[j].document
               PROVE  i = j
    BY DEF OneItemEach
  <2>1. /\ f[i] \in DOMAIN plan /\ plan[f[i]].state = "upgradeable" /\ p[i] = plan[f[i]]
        /\ f[j] \in DOMAIN plan /\ plan[f[j]].state = "upgradeable" /\ p[j] = plan[f[j]]
    BY <1>1, <1>4
  <2>2. Identity(plan[f[i]]) = Identity(plan[f[j]])
    BY <2>1 DEF Identity
  <2> QED
    BY <1>4, <2>1, <2>2 DEF OneIdentityEach
<1>6. Upgradeable(plan) = p
  BY <1>1, <1>2 DEF Upgradeable
<1> QED
  BY <1>3, <1>5, <1>6

LEMMA FirstOfEachIdentity ==
  ASSUME NEW shown \in Seq(PlannedItems), NEW I, I \subseteq DOMAIN shown,
         \A a, b \in I : Identity(shown[a]) = Identity(shown[b]) => a = b
  PROVE  Picked(shown, I) \in Seq(PlannedItems) /\ OneIdentityEach(Picked(shown, I))
<1>1. PICK p : p = Picked(shown, I)
  OBVIOUS
<1>2. p \in Seq(PlannedItems)
  BY <1>1, PickedIs
<1>3. PICK f : /\ f \in [DOMAIN p -> I]
               /\ \A i, j \in DOMAIN p : f[i] = f[j] => i = j
               /\ \A i \in DOMAIN p : p[i] = shown[f[i]]
  BY <1>1, PickedIs
<1>4. OneIdentityEach(p)
  <2> SUFFICES ASSUME NEW i \in DOMAIN p, NEW j \in DOMAIN p, Identity(p[i]) = Identity(p[j])
               PROVE  i = j
    BY DEF OneIdentityEach
  <2>1. f[i] \in I /\ f[j] \in I
    BY <1>3
  <2> QED
    BY <1>3, <2>1
<1> QED
  BY <1>1, <1>2, <1>4

LEMMA MergedPlansIs ==
  ASSUME NEW plan \in Seq(PlannedItems), NEW items \in Seq(PlannedItems)
  PROVE  MergedPlans(plan, items) \in Seq(PlannedItems) /\ OneIdentityEach(MergedPlans(plan, items))
<1>1. PICK shown : shown = plan \o items
  OBVIOUS
<1>2. shown \in Seq(PlannedItems)
  BY <1>1, ConcatProperties
<1>3. PICK I : I = {j \in DOMAIN shown : \A i \in 1..(j - 1) : Identity(shown[i]) # Identity(shown[j])}
  OBVIOUS
<1>4. I \subseteq DOMAIN shown
  BY <1>3
<1>5. ASSUME NEW a \in I, NEW b \in I, Identity(shown[a]) = Identity(shown[b]) PROVE a = b
  <2>1. a \in Nat \ {0} /\ b \in Nat \ {0} /\ a \in DOMAIN shown /\ b \in DOMAIN shown
    BY <1>2, <1>4
  <2>2. a < b => a \in 1..(b - 1)
    BY <2>1
  <2>3. b < a => b \in 1..(a - 1)
    BY <2>1
  <2>4. ~(a < b)
    BY <1>3, <1>5, <2>2
  <2>5. ~(b < a)
    BY <1>3, <1>5, <2>3
  <2> QED
    BY <2>1, <2>4, <2>5
<1>6. Picked(shown, I) \in Seq(PlannedItems) /\ OneIdentityEach(Picked(shown, I))
  BY <1>2, <1>4, <1>5, FirstOfEachIdentity
<1>7. MergedPlans(plan, items) = Picked(shown, I)
  BY <1>1, <1>3 DEF MergedPlans
<1> QED
  BY <1>6, <1>7

-----------------------------------------------------------------------------
(* A bulk upgrade: the start, and what others do.                           *)

LEMMA NoPoolIs ==
  /\ NoPool \in Pools
  /\ NoPool.phase = NotYet /\ NoPool.jobs = <<>> /\ NoPool.next = 1 /\ ~NoPool.open
  /\ NoPool.answers = <<>> /\ \A w \in Workers : NoPool.worker[w] = Idle
BY DEF NoPool, Pools, Idle

(* A pool that rests, or has yet to start, is sound.                        *)
LEMMA RestingPool ==
  ASSUME pool = NoPool
  PROVE  PoolSound /\ OneItemEach(pool.jobs) /\ Drained
<1>1. Len(<<>>) = 0
  OBVIOUS
<1> QED
  BY <1>1, NoPoolIs DEF PoolSound, OneItemEach, Drained, Over, Idle

LEMMA BulkStarts ==
  BulkInit => BulkInv
<1> SUFFICES ASSUME BulkInit PROVE BulkInv
  OBVIOUS
<1>1. pool = NoPool /\ upgrading.at = "start" /\ upgrading.plan = <<>> /\ upgrading.chosen = <<>>
  BY DEF BulkInit
<1>2. PoolSound /\ OneItemEach(pool.jobs) /\ Drained
  BY <1>1, RestingPool
<1>3. BulkTypes
  <2>1. storage \in [Documents -> [state : DocumentState, version : Nat]]
    BY DEF BulkInit, DocumentState
  <2>2. upgrading \in Upgradings
    BY DEF BulkInit, Upgradings
  <2>3. upgrading.profile \in 1..Len(PlannedProfiles)
    BY BulkAssumption DEF BulkInit, PlannedProfiles
  <2>4. work \in [Documents -> Nat]
    BY DEF BulkInit
  <2>5. pool \in Pools
    BY <1>1, NoPoolIs
  <2>6. mode \in {"one", "all", "server"}
    BY DEF BulkInit
  <2> QED
    BY <2>1, <2>2, <2>3, <2>4, <2>5, <2>6 DEF BulkTypes
<1>4. JobsSound
  BY <1>1, <1>2 DEF JobsSound, OneItemEach, OneIdentityEach
<1>5. PhaseSound
  BY <1>1, <1>2, NoPoolIs DEF PhaseSound, NotYet
<1>6. WorkSound
  BY <1>1 DEF BulkInit, WorkSound, UpgradedOnce
<1>7. AnswersSound /\ ReportSound
  BY <1>1 DEF AnswersSound, ReportSound, ReportTrue
<1> QED
  BY <1>2, <1>3, <1>4, <1>5, <1>6, <1>7 DEF BulkInv

(* No document becomes old again.                                           *)
NeverOldAgain == \A d \in Documents : storage[d].state # "old" => storage'[d].state # "old"

LEMMA ReportKept ==
  ASSUME BulkInv, NeverOldAgain, UNCHANGED <<upgrading, pool>>
  PROVE  ReportSound'
<1>1. \A i \in DOMAIN upgrading.chosen : upgrading.chosen[i].document \in Documents
  <2>1. upgrading.chosen \in Seq(PlannedItems)
    BY DEF BulkInv, BulkTypes, Upgradings
  <2> QED
    BY <2>1, ItemsAre
<1>2. ReportTrue'
  BY <1>1 DEF BulkInv, ReportSound, ReportTrue, NeverOldAgain
<1> QED
  BY <1>2 DEF BulkInv, ReportSound

LEMMA ChangeKeepsReport ==
  ASSUME BulkInv, NEW d \in Documents, ChangeElsewhere(d)
  PROVE  BulkInv'
<1>1. UNCHANGED <<mode, upgrading, pool, work>>
  BY DEF ChangeElsewhere
<1>2. PICK s \in {storage[d].state, "current", "gone"} :
        storage' = [storage EXCEPT ![d] = [state |-> s, version |-> storage[d].version + 1]]
  BY DEF ChangeElsewhere
<1>3. storage \in [Documents -> [state : DocumentState, version : Nat]]
  BY DEF BulkInv, BulkTypes
<1>4. storage' \in [Documents -> [state : DocumentState, version : Nat]]
  BY <1>2, <1>3 DEF DocumentState
<1>5. NeverOldAgain
  BY <1>2, <1>3 DEF NeverOldAgain
<1>6. BulkTypes'
  BY <1>1, <1>4 DEF BulkInv, BulkTypes, PlannedProfiles
<1>7. JobsSound' /\ PoolSound' /\ PhaseSound' /\ WorkSound'
  BY <1>1 DEF BulkInv, JobsSound, PoolSound, PhaseSound, WorkSound, UpgradedOnce, Drained, Over
<1>8. AnswersSound'
  <2>1. \A i \in DOMAIN pool.jobs : pool.jobs[i].document \in Documents
    <3>1. pool.jobs \in Seq(PlannedItems)
      BY DEF BulkInv, BulkTypes, Pools
    <3> QED
      BY <3>1, ItemsAre
  <2> QED
    BY <1>1, <1>5, <2>1 DEF BulkInv, AnswersSound, NeverOldAgain
<1>9. ReportSound'
  BY <1>1, <1>5, ReportKept
<1> QED
  BY <1>6, <1>7, <1>8, <1>9 DEF BulkInv

-----------------------------------------------------------------------------
(* A bulk upgrade: the pool.                                                *)

LEMMA PoolForm ==
  ASSUME BulkInv
  PROVE  /\ pool = [phase |-> pool.phase, jobs |-> pool.jobs, next |-> pool.next, open |-> pool.open,
                    expired |-> pool.expired, worker |-> pool.worker, answers |-> pool.answers]
         /\ storage \in [Documents -> [state : DocumentState, version : Nat]]
         /\ pool.phase \in {NotYet, "plan", "execute"} /\ pool.jobs \in Seq(PlannedItems)
         /\ pool.next \in Nat /\ pool.open \in BOOLEAN /\ pool.expired \in BOOLEAN
         /\ pool.worker \in [Workers -> Nat] /\ pool.answers \in Seq(Answer)
         /\ Len(pool.jobs) \in Nat /\ DOMAIN pool.jobs = 1..Len(pool.jobs)
         /\ Len(pool.answers) = Len(pool.jobs) /\ DOMAIN pool.answers = 1..Len(pool.jobs)
         /\ pool.next \in 1..(Len(pool.jobs) + 1)
         /\ \A w \in Workers : pool.worker[w] \in 0..(pool.next - 1)
<1>1. pool \in Pools
  BY DEF BulkInv, BulkTypes
<1>2. /\ Len(pool.answers) = Len(pool.jobs)
      /\ pool.next \in 1..(Len(pool.jobs) + 1)
      /\ \A w \in Workers : pool.worker[w] \in 0..(pool.next - 1)
  BY DEF BulkInv, PoolSound
<1>3. pool.jobs \in Seq(PlannedItems) /\ pool.answers \in Seq(Answer)
  BY <1>1 DEF Pools
<1>4. /\ Len(pool.jobs) \in Nat /\ DOMAIN pool.jobs = 1..Len(pool.jobs)
      /\ DOMAIN pool.answers = 1..Len(pool.answers)
  BY <1>3
<1>5. storage \in [Documents -> [state : DocumentState, version : Nat]]
  BY DEF BulkInv, BulkTypes
<1> QED
  BY <1>1, <1>2, <1>3, <1>4, <1>5 DEF Pools

LEMMA PoolBusy ==
  ASSUME BulkInv, pool.open \/ ~Over
  PROVE  /\ upgrading.at \in {"plan", "execute"} /\ upgrading.at # "done"
         /\ upgrading.at = "plan" <=> pool.phase = "plan"
         /\ upgrading.at = "execute" <=> pool.phase = "execute"
BY DEF BulkInv, PhaseSound, Drained

LEMMA DispatchKeepsReport ==
  ASSUME BulkInv, NEW w \in Workers, Dispatch(w)
  PROVE  BulkInv'
<1>1. /\ UNCHANGED <<storage, mode, upgrading>> /\ pool.open /\ pool.next <= Len(pool.jobs)
      /\ pool.worker[w] = 0
  BY DEF Dispatch, Idle
<1>2. PICK n, jobs : n = pool.next /\ jobs = pool.jobs
  OBVIOUS
<1>3. /\ n \in Nat \ {0} /\ n \in 1..Len(jobs) /\ Len(jobs) \in Nat /\ DOMAIN jobs = 1..Len(jobs)
      /\ jobs \in Seq(PlannedItems)
  BY <1>1, <1>2, PoolForm
<1>4. PICK ws : ws = [pool.worker EXCEPT ![w] = n]
  OBVIOUS
<1>5. /\ ws \in [Workers -> Nat] /\ ws[w] = n
      /\ \A v \in Workers : v # w => ws[v] = pool.worker[v]
  BY <1>2, <1>3, <1>4, PoolForm
<1>6. pool' = [phase |-> pool.phase, jobs |-> jobs, next |-> n + 1, open |-> pool.open,
               expired |-> pool.expired, worker |-> ws, answers |-> pool.answers]
  <2>1. pool' = [pool EXCEPT !.worker[w] = pool.next, !.next = pool.next + 1]
    BY DEF Dispatch
  <2> QED
    BY <1>2, <1>4, <2>1, PoolForm
<1>7. /\ pool'.phase = pool.phase /\ pool'.jobs = jobs /\ pool'.next = n + 1 /\ pool'.open
      /\ pool'.worker = ws /\ pool'.answers = pool.answers
  BY <1>1, <1>6
<1>8. pool' \in Pools
  BY <1>2, <1>3, <1>5, <1>6, PoolForm DEF Pools
<1>9. /\ upgrading.at \in {"plan", "execute"}
      /\ upgrading.at = "plan" <=> pool.phase = "plan"
      /\ upgrading.at = "execute" <=> pool.phase = "execute"
  BY <1>1, PoolBusy
<1>10. PICK d \in Documents : d = jobs[n].document
  BY <1>3, ItemsAre
<1>11. \/ pool.phase # "execute" /\ work' = work
       \/ pool.phase = "execute" /\ work' = [work EXCEPT ![d] = work[d] + 1]
  BY <1>2, <1>10 DEF Dispatch
<1>12. work \in [Documents -> Nat]
  BY DEF BulkInv, BulkTypes
<1>13. BulkTypes'
  BY <1>1, <1>8, <1>11, <1>12 DEF BulkInv, BulkTypes, PlannedProfiles
<1>14. JobsSound'
  BY <1>1, <1>2, <1>7 DEF BulkInv, JobsSound
<1>15. PoolSound'
  <2>1. \A v \in Workers : ws[v] \in 0..n /\ (v # w => ws[v] # n /\ ws[v] = pool.worker[v])
    BY <1>2, <1>3, <1>5, PoolForm
  <2>2. \A u, v \in Workers : ws[u] = ws[v] /\ ws[u] # Idle => u = v
    BY <1>5, <2>1 DEF BulkInv, PoolSound
  <2>3. n + 1 \in 1..(Len(jobs) + 1) /\ (n + 1) - 1 = n
    BY <1>3
  <2>4. Len(pool.answers) = Len(jobs)
    BY <1>2 DEF BulkInv, PoolSound
  <2> QED
    BY <1>7, <2>1, <2>2, <2>3, <2>4 DEF PoolSound
<1>16. PhaseSound'
  BY <1>1, <1>2, <1>7, <1>9 DEF BulkInv, PhaseSound
<1>17. WorkSound'
  <2>1. CASE pool.phase # "execute"
    BY <1>1, <1>9, <1>11, <2>1 DEF BulkInv, WorkSound, UpgradedOnce
  <2>2. CASE pool.phase = "execute"
    <3>1. \A e \in Documents : work[e] # 0 => \E i \in 1..(n - 1) : jobs[i].document = e
      BY <1>2, <1>9, <2>2 DEF BulkInv, WorkSound
    <3>2. work[d] = 0
      <4> SUFFICES ASSUME work[d] # 0 PROVE FALSE
        OBVIOUS
      <4>1. PICK i \in 1..(n - 1) : jobs[i].document = d
        BY <3>1
      <4>2. i \in DOMAIN jobs /\ n \in DOMAIN jobs /\ i # n
        BY <1>3
      <4> QED
        BY <1>2, <1>10, <4>1, <4>2 DEF BulkInv, JobsSound, OneItemEach
    <3>3. \A e \in Documents : work'[e] = IF e = d THEN 1 ELSE work[e]
      BY <1>11, <1>12, <2>2, <3>2
    <3>4. \A e \in Documents : work'[e] <= 1
      BY <3>3 DEF BulkInv, WorkSound, UpgradedOnce
    <3>5. ASSUME NEW e \in Documents, work'[e] # 0
          PROVE  \E i \in 1..((n + 1) - 1) : jobs[i].document = e
      <4>1. CASE e = d
        BY <1>3, <1>10, <4>1
      <4>2. CASE e # d
        <5>1. PICK i \in 1..(n - 1) : jobs[i].document = e
          BY <3>1, <3>3, <3>5, <4>2
        <5>2. i \in 1..((n + 1) - 1)
          BY <1>3
        <5> QED
          BY <5>1, <5>2
      <4> QED
        BY <4>1, <4>2
    <3>6. upgrading.at = "execute"
      BY <1>9, <2>2
    <3> QED
      BY <1>1, <1>7, <3>4, <3>5, <3>6 DEF WorkSound, UpgradedOnce
  <2> QED
    BY <2>1, <2>2
<1>18. AnswersSound'
  <2> SUFFICES ASSUME upgrading.at = "execute", NEW i \in DOMAIN jobs
               PROVE  /\ pool.answers[i] = "none" =>
                           \/ i >= n + 1
                           \/ \E v \in Workers : ws[v] = i
                      /\ pool.answers[i] \in {"upgraded", "unchanged"} =>
                           storage[jobs[i].document].state # "old"
    BY <1>1, <1>7 DEF AnswersSound
  <2>1. /\ pool.answers[i] = "none" =>
             \/ pool.open /\ i >= n
             \/ \E v \in Workers : pool.worker[v] = i
        /\ pool.answers[i] \in {"upgraded", "unchanged"} => storage[jobs[i].document].state # "old"
    BY <1>2 DEF BulkInv, AnswersSound
  <2>2. i \in Nat \ {0}
    BY <1>3
  <2>3. ASSUME NEW v \in Workers, pool.worker[v] = i PROVE ws[v] = i
    BY <1>1, <1>5, <2>2, <2>3
  <2>4. i >= n => i = n \/ i >= n + 1
    BY <1>3, <2>2
  <2> QED
    BY <1>5, <2>1, <2>3, <2>4
<1>19. ReportSound'
  BY <1>1, <1>9 DEF ReportSound, ReportTrue
<1> QED
  BY <1>13, <1>14, <1>15, <1>16, <1>17, <1>18, <1>19 DEF BulkInv

(* The pool moves without handing anything out.                             *)
LEMMA PoolMoves ==
  ASSUME BulkInv, UNCHANGED <<mode, upgrading, work>>, pool.open \/ ~Over,
         storage' \in [Documents -> [state : DocumentState, version : Nat]],
         pool' \in Pools, pool'.phase = pool.phase, pool'.next = pool.next,
         Len(pool'.jobs) = Len(pool.jobs),
         \A i \in DOMAIN pool.jobs : pool'.jobs[i].document = pool.jobs[i].document,
         pool.phase = "execute" => pool'.jobs = pool.jobs,
         Len(pool'.answers) = Len(pool.answers),
         \A v \in Workers : pool'.worker[v] \in {pool.worker[v], Idle},
         AnswersSound'
  PROVE  BulkInv'
<1>1. /\ upgrading.at \in {"plan", "execute"}
      /\ upgrading.at = "plan" <=> pool.phase = "plan"
      /\ upgrading.at = "execute" <=> pool.phase = "execute"
  BY PoolBusy
<1>2. BulkTypes'
  BY DEF BulkInv, BulkTypes, PlannedProfiles
<1>3. JobsSound'
  <2>1. pool'.jobs \in Seq(PlannedItems) /\ pool.jobs \in Seq(PlannedItems)
    BY DEF Pools, BulkInv, BulkTypes
  <2>2. DOMAIN pool'.jobs = DOMAIN pool.jobs
    BY <2>1
  <2> QED
    BY <2>2 DEF BulkInv, JobsSound, OneItemEach
<1>4. PoolSound'
  <2>1. \A v \in Workers : pool'.worker[v] \in 0..(pool.next - 1)
    <3>1. 0 \in 0..(pool.next - 1)
      BY PoolForm
    <3>2. \A v \in Workers : pool.worker[v] \in 0..(pool.next - 1)
      BY DEF BulkInv, PoolSound
    <3> QED
      BY <3>1, <3>2 DEF Idle
  <2> QED
    BY <2>1 DEF BulkInv, PoolSound
<1>5. PhaseSound'
  BY <1>1 DEF BulkInv, PhaseSound
<1>6. WorkSound'
  <2>1. upgrading.at = "execute" => pool'.jobs = pool.jobs
    BY <1>1
  <2>2. UpgradedOnce' /\ upgrading'.at \notin {"start", "confirm"}
    BY <1>1 DEF BulkInv, WorkSound, UpgradedOnce
  <2>3. upgrading.at = "plan" => \A d \in Documents : work'[d] = 0
    BY DEF BulkInv, WorkSound
  <2>4. ASSUME upgrading.at = "execute", NEW d \in Documents, work'[d] # 0
        PROVE  \E i \in 1..(pool'.next - 1) : pool'.jobs[i].document = d
    BY <2>1, <2>4 DEF BulkInv, WorkSound
  <2> QED
    BY <2>2, <2>3, <2>4 DEF WorkSound
<1>7. ReportSound'
  BY <1>1 DEF ReportSound, ReportTrue
<1> QED
  BY <1>2, <1>3, <1>4, <1>5, <1>6, <1>7 DEF BulkInv

LEMMA CloseKeepsReport ==
  ASSUME BulkInv, CloseJobs
  PROVE  BulkInv'
<1>1. UNCHANGED <<storage, mode, upgrading, work>> /\ pool.open /\ pool.next > Len(pool.jobs)
  BY DEF CloseJobs
<1>2. /\ pool' \in Pools /\ pool'.phase = pool.phase /\ pool'.next = pool.next
      /\ pool'.jobs = pool.jobs /\ pool'.answers = pool.answers /\ pool'.worker = pool.worker
  BY PoolForm DEF CloseJobs, BulkInv, BulkTypes, Pools
<1>3. \A i \in DOMAIN pool.jobs : ~(i >= pool.next)
  BY <1>1, PoolForm
<1>4. AnswersSound'
  BY <1>1, <1>2, <1>3 DEF BulkInv, AnswersSound
<1> QED
  BY <1>1, <1>2, <1>4, PoolForm, PoolMoves

LEMMA StopKeepsReport ==
  ASSUME BulkInv, Stop
  PROVE  BulkInv'
<1>1. UNCHANGED <<storage, mode, upgrading, work>> /\ pool.open /\ pool.next <= Len(pool.jobs)
  BY DEF Stop
<1>2. PICK a : /\ a = IF pool.phase = "execute"
                      THEN [i \in DOMAIN pool.answers |-> IF i >= pool.next THEN "error"
                                                          ELSE pool.answers[i]]
                      ELSE pool.answers
               /\ pool' = [pool EXCEPT !.open = FALSE, !.answers = a]
  BY DEF Stop
<1>3. a \in Seq(Answer) /\ Len(a) = Len(pool.answers)
  <2>1. CASE pool.phase # "execute"
    BY <1>2, <2>1, PoolForm
  <2>2. CASE pool.phase = "execute"
    <3>1. \A i \in 1..Len(pool.jobs) : pool.answers[i] \in Answer
      BY PoolForm
    <3>2. a \in [1..Len(pool.jobs) -> Answer]
      BY <1>2, <2>2, <3>1, PoolForm DEF Answer
    <3> QED
      BY <3>2, PoolForm
  <2> QED
    BY <2>1, <2>2
<1>4. /\ pool' \in Pools /\ pool'.phase = pool.phase /\ pool'.next = pool.next
      /\ pool'.jobs = pool.jobs /\ pool'.answers = a /\ pool'.worker = pool.worker /\ ~pool'.open
  BY <1>2, <1>3, PoolForm DEF BulkInv, BulkTypes, Pools
<1>5. AnswersSound'
  <2> SUFFICES ASSUME upgrading.at = "execute", NEW i \in DOMAIN pool.jobs
               PROVE  /\ a[i] = "none" => \E w \in Workers : pool.worker[w] = i
                      /\ a[i] \in {"upgraded", "unchanged"} =>
                           storage[pool.jobs[i].document].state # "old"
    BY <1>1, <1>4 DEF AnswersSound
  <2>1. pool.phase = "execute" /\ i \in DOMAIN pool.answers
    BY PoolForm DEF BulkInv, PhaseSound
  <2>2. a[i] = IF i >= pool.next THEN "error" ELSE pool.answers[i]
    BY <1>2, <2>1
  <2> QED
    BY <2>2 DEF BulkInv, AnswersSound
<1> QED
  BY <1>1, <1>3, <1>4, <1>5, PoolForm, PoolMoves

LEMMA ExpiryKeepsReport ==
  ASSUME BulkInv, BulkExpires
  PROVE  BulkInv'
<1>1. UNCHANGED <<storage, mode, upgrading, work>> /\ (pool.open \/ ~Over)
  BY DEF BulkExpires
<1>2. /\ pool' \in Pools /\ pool'.phase = pool.phase /\ pool'.next = pool.next
      /\ pool'.jobs = pool.jobs /\ pool'.answers = pool.answers /\ pool'.worker = pool.worker
      /\ pool'.open = pool.open
  BY PoolForm DEF BulkExpires, BulkInv, BulkTypes, Pools
<1>3. AnswersSound'
  BY <1>1, <1>2 DEF BulkInv, AnswersSound
<1> QED
  BY <1>1, <1>2, <1>3, PoolForm, PoolMoves

LEMMA PlanItemKeepsReport ==
  ASSUME BulkInv, NEW w \in Workers, PlanItem(w)
  PROVE  BulkInv'
<1>1. /\ UNCHANGED <<storage, mode, upgrading, work>> /\ pool.phase = "plan"
      /\ pool.worker[w] # Idle /\ ~Over
  BY DEF PlanItem, Over
<1>2. PICK i : i = pool.worker[w]
  OBVIOUS
<1>3. i \in DOMAIN pool.jobs
  BY <1>1, <1>2, PoolForm DEF Idle
<1>4. PICK d : d = pool.jobs[i].document
  OBVIOUS
<1>5. PICK planned :
        /\ planned \in PlannedItems /\ planned.document = d
        /\ pool' = [pool EXCEPT !.worker[w] = Idle, !.jobs[i] = planned]
  <2>1. d \in Documents
    BY <1>3, <1>4, PoolForm, ItemsAre
  <2>2. PICK verdict \in Verdicts(storage[d].state) :
          pool' = [pool EXCEPT !.worker[w] = Idle,
              !.jobs[i] = [document |-> d, state |-> verdict, version |-> storage[d].version]]
    BY <1>2, <1>4 DEF PlanItem
  <2>3. verdict \in PlanState
    BY DEF Verdicts, PlanState
  <2>4. storage[d].version \in Nat
    BY <2>1, PoolForm
  <2> QED
    BY <2>1, <2>2, <2>3, <2>4 DEF PlannedItems
<1>6. PICK ws, jobs : ws = [pool.worker EXCEPT ![w] = Idle] /\ jobs = [pool.jobs EXCEPT ![i] = planned]
  OBVIOUS
<1>7. ws \in [Workers -> Nat] /\ \A v \in Workers : ws[v] \in {pool.worker[v], Idle}
  BY <1>6, PoolForm DEF Idle
<1>8. /\ jobs \in Seq(PlannedItems) /\ Len(jobs) = Len(pool.jobs)
      /\ \A k \in DOMAIN pool.jobs : jobs[k] = IF k = i THEN planned ELSE pool.jobs[k]
  BY <1>3, <1>5, <1>6, PoolForm, ExceptSeq
<1>9. /\ pool' \in Pools /\ pool'.phase = pool.phase /\ pool'.next = pool.next
      /\ pool'.jobs = jobs /\ pool'.answers = pool.answers /\ pool'.worker = ws
  <2>1. pool' = [phase |-> pool.phase, jobs |-> jobs, next |-> pool.next, open |-> pool.open,
                 expired |-> pool.expired, worker |-> ws, answers |-> pool.answers]
    BY <1>5, <1>6, PoolForm
  <2> QED
    BY <1>7, <1>8, <2>1, PoolForm DEF Pools
<1>10. \A k \in DOMAIN pool.jobs : jobs[k].document = pool.jobs[k].document
  BY <1>4, <1>5, <1>8
<1>11. AnswersSound'
  BY <1>1 DEF BulkInv, PhaseSound, AnswersSound
<1> QED
  BY <1>1, <1>7, <1>8, <1>9, <1>10, <1>11, PoolForm, PoolMoves

(* An index in a worker's hands gets its answer.                            *)
LEMMA AnswerKeepsReport ==
  ASSUME BulkInv, NEW w \in Workers, pool.phase = "execute", pool.worker[w] # Idle,
         NEW a \in Answer \ {"none"}, Answered(w, a), UNCHANGED <<mode, upgrading, work>>,
         storage' \in [Documents -> [state : DocumentState, version : Nat]], NeverOldAgain,
         a \in {"upgraded", "unchanged"} =>
           storage'[pool.jobs[pool.worker[w]].document].state # "old"
  PROVE  BulkInv'
<1>1. ~Over /\ upgrading.at = "execute"
  BY DEF Over, BulkInv, PhaseSound
<1>2. PICK i : i = pool.worker[w]
  OBVIOUS
<1>3. i \in DOMAIN pool.answers /\ i \in DOMAIN pool.jobs
  BY <1>2, PoolForm DEF Idle
<1>4. PICK ws, as : ws = [pool.worker EXCEPT ![w] = Idle] /\ as = [pool.answers EXCEPT ![i] = a]
  OBVIOUS
<1>5. /\ ws \in [Workers -> Nat] /\ \A v \in Workers : ws[v] \in {pool.worker[v], Idle}
      /\ \A v \in Workers : v # w => ws[v] = pool.worker[v]
  BY <1>4, PoolForm DEF Idle
<1>6. /\ as \in Seq(Answer) /\ Len(as) = Len(pool.answers)
      /\ \A k \in DOMAIN pool.answers : as[k] = IF k = i THEN a ELSE pool.answers[k]
  BY <1>3, <1>4, PoolForm, ExceptSeq
<1>7. /\ pool' \in Pools /\ pool'.phase = pool.phase /\ pool'.next = pool.next
      /\ pool'.jobs = pool.jobs /\ pool'.answers = as /\ pool'.worker = ws /\ pool'.open = pool.open
  <2>1. pool' = [pool EXCEPT !.worker[w] = Idle, !.answers[i] = a]
    BY <1>2 DEF Answered
  <2>2. pool' = [phase |-> pool.phase, jobs |-> pool.jobs, next |-> pool.next, open |-> pool.open,
                 expired |-> pool.expired, worker |-> ws, answers |-> as]
    BY <1>4, <2>1, PoolForm
  <2> QED
    BY <1>5, <1>6, <2>2, PoolForm DEF Pools
<1>8. AnswersSound'
  <2> SUFFICES ASSUME NEW k \in DOMAIN pool.jobs
               PROVE  /\ as[k] = "none" =>
                           \/ pool.open /\ k >= pool.next
                           \/ \E v \in Workers : ws[v] = k
                      /\ as[k] \in {"upgraded", "unchanged"} =>
                           storage'[pool.jobs[k].document].state # "old"
    BY <1>7 DEF AnswersSound
  <2>1. /\ pool.answers[k] = "none" =>
             \/ pool.open /\ k >= pool.next
             \/ \E v \in Workers : pool.worker[v] = k
        /\ pool.answers[k] \in {"upgraded", "unchanged"} => storage[pool.jobs[k].document].state # "old"
    BY <1>1 DEF BulkInv, AnswersSound
  <2>2. k \in DOMAIN pool.answers /\ pool.jobs[k].document \in Documents
    BY PoolForm, ItemsAre
  <2>3. CASE k = i
    BY <1>2, <1>6, <2>2, <2>3
  <2>4. CASE k # i
    <3>1. as[k] = pool.answers[k]
      BY <1>6, <2>2, <2>4
    <3>2. ASSUME NEW v \in Workers, pool.worker[v] = k PROVE ws[v] = k
      BY <1>2, <1>5, <2>4, <3>2
    <3> QED
      BY <2>1, <2>2, <3>1, <3>2 DEF NeverOldAgain
  <2> QED
    BY <2>3, <2>4
<1> QED
  BY <1>1, <1>5, <1>6, <1>7, <1>8, PoolMoves

LEMMA UpgradeKeepsReport ==
  ASSUME BulkInv, NEW w \in Workers, UpgradeItem(w)
  PROVE  BulkInv'
<1>1. pool.phase = "execute" /\ pool.worker[w] # Idle /\ UNCHANGED <<mode, upgrading, work>>
  BY DEF UpgradeItem
<1>2. PICK d : d = pool.jobs[pool.worker[w]].document
  OBVIOUS
<1>3. d \in Documents
  <2>1. pool.worker[w] \in DOMAIN pool.jobs
    BY <1>1, PoolForm DEF Idle
  <2> QED
    BY <1>2, <2>1, PoolForm, ItemsAre
<1>4. "unchanged" \in Answer \ {"none"} /\ "upgraded" \in Answer \ {"none"}
  BY DEF Answer
<1>5. CASE storage[d].state = "current"
  <2>1. Answered(w, "unchanged") /\ UNCHANGED storage
    BY <1>2, <1>5 DEF UpgradeItem
  <2>2. NeverOldAgain
    BY <2>1 DEF NeverOldAgain
  <2>3. storage'[pool.jobs[pool.worker[w]].document].state # "old"
    BY <1>2, <1>5, <2>1
  <2>4. storage' \in [Documents -> [state : DocumentState, version : Nat]]
    BY <2>1, PoolForm
  <2> QED
    BY <1>1, <1>4, <2>1, <2>2, <2>3, <2>4, AnswerKeepsReport
<1>6. CASE storage[d].state # "current"
  <2>1. /\ Answered(w, "upgraded")
        /\ storage' = [storage EXCEPT ![d] = [state |-> "current", version |-> storage[d].version + 1]]
    BY <1>2, <1>6 DEF UpgradeItem
  <2>2. /\ storage' \in [Documents -> [state : DocumentState, version : Nat]]
        /\ storage'[d].state = "current"
        /\ \A e \in Documents : e # d => storage'[e] = storage[e]
    BY <1>3, <2>1, PoolForm DEF DocumentState
  <2>3. NeverOldAgain
    BY <2>2 DEF NeverOldAgain
  <2>4. storage'[pool.jobs[pool.worker[w]].document].state # "old"
    BY <1>2, <2>2
  <2> QED
    BY <1>1, <1>4, <2>1, <2>2, <2>3, <2>4, AnswerKeepsReport
<1> QED
  BY <1>5, <1>6

LEMMA UpgradeFailureKeepsReport ==
  ASSUME BulkInv, NEW w \in Workers, UpgradeFails(w)
  PROVE  BulkInv'
<1>1. /\ pool.phase = "execute" /\ pool.worker[w] # Idle
      /\ UNCHANGED <<storage, mode, upgrading, work>> /\ Answered(w, "error")
  BY DEF UpgradeFails
<1>2. "error" \in Answer \ {"none"} /\ "error" \notin {"upgraded", "unchanged"}
  BY DEF Answer
<1>3. NeverOldAgain
  BY <1>1 DEF NeverOldAgain
<1>4. storage' \in [Documents -> [state : DocumentState, version : Nat]]
  BY <1>1, PoolForm
<1> QED
  BY <1>1, <1>2, <1>3, <1>4, AnswerKeepsReport

-----------------------------------------------------------------------------
(* A bulk upgrade: the command.                                             *)

LEMMA CommandForm ==
  ASSUME BulkInv
  PROVE  /\ upgrading \in Upgradings
         /\ upgrading = [at |-> upgrading.at, profile |-> upgrading.profile, plan |-> upgrading.plan,
                         chosen |-> upgrading.chosen, exit |-> upgrading.exit,
                         failed |-> upgrading.failed, upgraded |-> upgrading.upgraded]
         /\ upgrading.profile \in Nat /\ upgrading.plan \in Seq(PlannedItems)
         /\ upgrading.chosen \in Seq(PlannedItems)
         /\ upgrading.exit \in {NotYet, "success", "failure"}
         /\ upgrading.failed \in Nat /\ upgrading.upgraded \in Nat
         /\ OneIdentityEach(upgrading.plan) /\ OneItemEach(upgrading.chosen) /\ OneItemEach(pool.jobs)
BY DEF BulkInv, BulkTypes, JobsSound, Upgradings

(* A pool just started has handed out nothing.                              *)
LEMMA StartedPool ==
  ASSUME NEW phase \in {"plan", "execute"}, NEW jobs \in Seq(PlannedItems), OneItemEach(jobs),
         pool' = Started(phase, jobs)
  PROVE  /\ pool' \in Pools /\ PoolSound' /\ pool'.phase = phase /\ pool'.jobs = jobs
         /\ pool'.next = 1 /\ pool'.open
         /\ \A i \in DOMAIN jobs : pool'.answers[i] = "none"
<1>1. PICK a : a = [i \in DOMAIN jobs |-> "none"]
  OBVIOUS
<1>2. Len(jobs) \in Nat /\ DOMAIN jobs = 1..Len(jobs)
  OBVIOUS
<1>3. a \in Seq(Answer) /\ Len(a) = Len(jobs)
  <2>1. a \in [1..Len(jobs) -> Answer]
    BY <1>1, <1>2 DEF Answer
  <2> QED
    BY <1>2, <2>1
<1>4. pool' = [phase |-> phase, jobs |-> jobs, next |-> 1, open |-> TRUE, expired |-> FALSE,
               worker |-> [w \in Workers |-> Idle], answers |-> a]
  BY <1>1 DEF Started, NoPool
<1>5. pool' \in Pools
  BY <1>3, <1>4 DEF Pools, Idle
<1>6. PoolSound'
  BY <1>2, <1>3, <1>4 DEF PoolSound, Idle
<1> QED
  BY <1>1, <1>4, <1>5, <1>6

LEMMA PlannedAre ==
  PlannedProfiles \in Seq(DOMAIN View)
<1>1. BulkProfiles \in Seq(DOMAIN View) /\ BulkProfiles # <<>>
  BY BulkAssumption
<1>2. BulkProfiles[1] \in DOMAIN View
  BY <1>1
<1>3. <<BulkProfiles[1]>> \in Seq(DOMAIN View)
  BY <1>2
<1> QED
  BY <1>1, <1>3 DEF PlannedProfiles

LEMMA PlanningKeepsReport ==
  ASSUME BulkInv, StartPlanning
  PROVE  BulkInv'
<1>1. UNCHANGED <<storage, mode, work>> /\ upgrading.at = "start"
  BY DEF StartPlanning
<1>2. /\ upgrading' \in Upgradings /\ upgrading'.at = "plan" /\ upgrading'.profile = upgrading.profile
      /\ upgrading'.plan = upgrading.plan /\ upgrading'.chosen = upgrading.chosen
  BY CommandForm DEF StartPlanning, Upgradings
<1>3. PICK documents : documents = Deduplicated(View[PlannedProfiles[upgrading.profile]])
  OBVIOUS
<1>4. documents \in Seq(Documents) /\ \A i, j \in DOMAIN documents : documents[i] = documents[j] => i = j
  <2>1. PlannedProfiles \in Seq(DOMAIN View)
    BY PlannedAre
  <2>2. upgrading.profile \in 1..Len(PlannedProfiles)
    BY DEF BulkInv, BulkTypes
  <2>3. PlannedProfiles[upgrading.profile] \in DOMAIN View
    BY <2>1, <2>2
  <2>4. View[PlannedProfiles[upgrading.profile]] \in Seq(Documents)
    BY <2>3, BulkAssumption
  <2> QED
    BY <1>3, <2>4, DeduplicatedIs
<1>5. PICK jobs : /\ jobs = [i \in DOMAIN documents |->
                               [document |-> documents[i], state |-> "invalid", version |-> 0]]
                  /\ pool' = Started("plan", jobs)
  BY <1>3 DEF StartPlanning
<1>6. jobs \in Seq(PlannedItems) /\ OneItemEach(jobs)
  <2>1. Len(documents) \in Nat /\ DOMAIN documents = 1..Len(documents)
    BY <1>4
  <2>2. \A i \in 1..Len(documents) : jobs[i] \in PlannedItems
    BY <1>4, <1>5, <2>1 DEF PlannedItems, PlanState
  <2>3. jobs \in [1..Len(documents) -> PlannedItems]
    BY <1>5, <2>1, <2>2
  <2>4. jobs \in Seq(PlannedItems)
    BY <2>1, <2>3
  <2>5. OneItemEach(jobs)
    BY <1>4, <1>5 DEF OneItemEach
  <2> QED
    BY <2>4, <2>5
<1>7. /\ pool' \in Pools /\ PoolSound' /\ pool'.phase = "plan" /\ pool'.jobs = jobs
  BY <1>5, <1>6, StartedPool
<1>8. BulkTypes'
  BY <1>1, <1>2, <1>7 DEF BulkInv, BulkTypes, PlannedProfiles
<1>9. JobsSound'
  BY <1>2, <1>6, <1>7, CommandForm DEF JobsSound
<1>10. PhaseSound'
  BY <1>2, <1>7 DEF PhaseSound
<1>11. WorkSound'
  BY <1>1, <1>2 DEF BulkInv, WorkSound, UpgradedOnce
<1>12. AnswersSound' /\ ReportSound'
  BY <1>2 DEF AnswersSound, ReportSound, ReportTrue
<1> QED
  BY <1>7, <1>8, <1>9, <1>10, <1>11, <1>12 DEF BulkInv

(* The command goes on without a pool.                                      *)
LEMMA WithoutPool ==
  ASSUME BulkInv, UNCHANGED <<storage, mode, work>>, pool' = NoPool,
         upgrading' \in Upgradings, upgrading'.profile \in 1..Len(PlannedProfiles),
         OneIdentityEach(upgrading'.plan), upgrading'.chosen = upgrading.chosen,
         \/ upgrading'.at \in {"start", "confirm", "done"} /\ upgrading.at \in {"plan", "confirm"}
         \/ upgrading'.at = "done"
  PROVE  BulkInv'
<1>1. PoolSound' /\ OneItemEach(pool'.jobs) /\ Drained'
  <2>1. Len(<<>>) = 0
    OBVIOUS
  <2> QED
    BY <2>1, NoPoolIs DEF PoolSound, OneItemEach, Drained, Over, Idle
<1>2. BulkTypes'
  BY NoPoolIs DEF BulkInv, BulkTypes, PlannedProfiles
<1>3. JobsSound'
  BY <1>1, CommandForm DEF JobsSound
<1>4. PhaseSound'
  BY <1>1, NoPoolIs DEF PhaseSound, NotYet
<1>5. WorkSound'
  BY DEF BulkInv, WorkSound, UpgradedOnce
<1>6. AnswersSound' /\ ReportSound'
  BY NoPoolIs DEF AnswersSound, ReportSound, ReportTrue
<1> QED
  BY <1>1, <1>2, <1>3, <1>4, <1>5, <1>6 DEF BulkInv

LEMMA PlanEndKeepsReport ==
  ASSUME BulkInv, PlanEnds
  PROVE  BulkInv'
<1>1. UNCHANGED <<storage, mode, work>> /\ pool' = NoPool /\ upgrading.at = "plan"
  BY DEF PlanEnds, BulkInv, PhaseSound
<1>2. PICK m : m = MergedPlans(upgrading.plan, pool.jobs)
  OBVIOUS
<1>3. m \in Seq(PlannedItems) /\ OneIdentityEach(m)
  BY <1>2, CommandForm, PoolForm, MergedPlansIs
<1>4. /\ upgrading.profile \in 1..Len(PlannedProfiles) /\ Len(PlannedProfiles) \in Nat
      /\ upgrading.profile + 1 \in Nat
  <2>1. PlannedProfiles \in Seq(DOMAIN View)
    BY PlannedAre
  <2>2. Len(PlannedProfiles) \in Nat
    BY <2>1
  <2>3. upgrading.profile \in 1..Len(PlannedProfiles)
    BY DEF BulkInv, BulkTypes
  <2> QED
    BY <2>2, <2>3
<1>5. \/ upgrading' = [upgrading EXCEPT !.at = "done", !.exit = "failure"]
      \/ /\ upgrading.profile < Len(PlannedProfiles)
         /\ upgrading' = [upgrading EXCEPT !.at = "start", !.profile = upgrading.profile + 1, !.plan = m]
      \/ upgrading' = [upgrading EXCEPT !.at = "confirm", !.plan = m]
  BY <1>2 DEF PlanEnds
<1>6. /\ upgrading' \in Upgradings /\ upgrading'.at \in {"start", "confirm", "done"}
      /\ upgrading'.chosen = upgrading.chosen
      /\ upgrading'.plan \in {upgrading.plan, m}
      /\ \/ upgrading'.profile = upgrading.profile
         \/ upgrading'.profile = upgrading.profile + 1 /\ upgrading.profile < Len(PlannedProfiles)
  BY <1>3, <1>4, <1>5, CommandForm DEF Upgradings
<1>7. upgrading'.profile \in 1..Len(PlannedProfiles)
  BY <1>4, <1>6
<1>8. OneIdentityEach(upgrading'.plan)
  BY <1>3, <1>6, CommandForm
<1> QED
  BY <1>1, <1>6, <1>7, <1>8, WithoutPool

LEMMA DeclineKeepsReport ==
  ASSUME BulkInv, DeclineBulk
  PROVE  BulkInv'
<1>1. /\ UNCHANGED <<storage, mode, pool, work>> /\ upgrading.at = "confirm"
  BY DEF DeclineBulk
<1>2. PICK status \in {"success", "failure"} :
        upgrading' = [upgrading EXCEPT !.at = "done", !.exit = status]
  BY DEF DeclineBulk
<1>3. /\ upgrading' \in Upgradings /\ upgrading'.at = "done" /\ upgrading'.chosen = upgrading.chosen
      /\ upgrading'.plan = upgrading.plan /\ upgrading'.profile = upgrading.profile
  BY <1>2, CommandForm DEF Upgradings
<1>4. pool = NoPool
  BY <1>1 DEF BulkInv, PhaseSound
<1>5. upgrading'.profile \in 1..Len(PlannedProfiles)
  BY <1>3 DEF BulkInv, BulkTypes
<1> QED
  BY <1>1, <1>3, <1>4, <1>5, CommandForm, WithoutPool

LEMMA AbandonmentKeepsReport ==
  ASSUME BulkInv, AbandonBulk
  PROVE  BulkInv'
<1>1. /\ UNCHANGED <<storage, mode, work>> /\ upgrading.at = "execute" /\ pool' = NoPool
      /\ upgrading' = [upgrading EXCEPT !.at = "done", !.exit = "failure"]
  BY DEF AbandonBulk
<1>2. /\ upgrading' \in Upgradings /\ upgrading'.at = "done" /\ upgrading'.chosen = upgrading.chosen
      /\ upgrading'.plan = upgrading.plan /\ upgrading'.profile = upgrading.profile
  BY <1>1, CommandForm DEF Upgradings
<1>3. upgrading'.profile \in 1..Len(PlannedProfiles)
  BY <1>2 DEF BulkInv, BulkTypes
<1> QED
  BY <1>1, <1>2, <1>3, CommandForm, WithoutPool

LEMMA ExecutionStartKeepsReport ==
  ASSUME BulkInv, StartExecution
  PROVE  BulkInv'
<1>1. UNCHANGED <<storage, mode, work>> /\ upgrading.at = "confirm"
  BY DEF StartExecution
<1>2. PICK c : c = Upgradeable(upgrading.plan)
  OBVIOUS
<1>3. c \in Seq(PlannedItems) /\ OneItemEach(c)
  BY <1>2, CommandForm, UpgradeableIs
<1>4. /\ upgrading' = [upgrading EXCEPT !.at = "execute", !.chosen = c]
      /\ pool' = Started("execute", c)
  BY <1>2 DEF StartExecution
<1>5. /\ upgrading' \in Upgradings /\ upgrading'.at = "execute" /\ upgrading'.chosen = c
      /\ upgrading'.plan = upgrading.plan /\ upgrading'.profile = upgrading.profile
  BY <1>3, <1>4, CommandForm DEF Upgradings
<1>6. /\ pool' \in Pools /\ PoolSound' /\ pool'.phase = "execute" /\ pool'.jobs = c
      /\ pool'.next = 1 /\ pool'.open
      /\ \A i \in DOMAIN c : pool'.answers[i] = "none"
  BY <1>3, <1>4, StartedPool
<1>7. BulkTypes'
  BY <1>1, <1>5, <1>6 DEF BulkInv, BulkTypes, PlannedProfiles
<1>8. JobsSound'
  BY <1>3, <1>5, <1>6, CommandForm DEF JobsSound
<1>9. PhaseSound'
  BY <1>5, <1>6 DEF PhaseSound
<1>10. WorkSound'
  <2>1. \A d \in Documents : work[d] = 0
    BY <1>1 DEF BulkInv, WorkSound
  <2> QED
    BY <1>1, <1>5, <2>1 DEF BulkInv, WorkSound, UpgradedOnce
<1>11. AnswersSound'
  <2>1. \A i \in DOMAIN c : i >= 1
    BY <1>3
  <2> QED
    BY <1>6, <2>1 DEF AnswersSound
<1>12. ReportSound'
  BY <1>5 DEF ReportSound, ReportTrue
<1> QED
  BY <1>6, <1>7, <1>8, <1>9, <1>10, <1>11, <1>12 DEF BulkInv

LEMMA CountIs ==
  ASSUME BulkInv, NEW answer
  PROVE  /\ Count(answer) \in Nat
         /\ Count(answer) = 0 => \A i \in DOMAIN pool.answers : pool.answers[i] # answer
<1>1. PICK S : S = {i \in DOMAIN pool.answers : pool.answers[i] = answer}
  OBVIOUS
<1>2. IsFiniteSet(1..Len(pool.jobs))
  BY PoolForm, FS_Interval
<1>3. IsFiniteSet(S)
  BY <1>1, <1>2, PoolForm, FS_Subset
<1>4. Cardinality(S) \in Nat
  BY <1>3, FS_CardinalityType
<1>5. Cardinality(S) = 0 => S = {}
  BY <1>3, FS_EmptySet
<1> QED
  BY <1>1, <1>4, <1>5 DEF Count

LEMMA ExecutionEndKeepsReport ==
  ASSUME BulkInv, ExecutionEnds
  PROVE  BulkInv'
<1>1. /\ UNCHANGED <<storage, mode, work>> /\ Drained /\ upgrading.at = "execute"
      /\ pool.phase = "execute" /\ pool' = [pool EXCEPT !.phase = NotYet]
  BY DEF ExecutionEnds, BulkInv, PhaseSound
<1>2. PICK status \in {"success", "failure"} :
        /\ upgrading' = [upgrading EXCEPT !.at = "done", !.failed = Count("error"),
                                          !.upgraded = Count("upgraded"), !.exit = status]
        /\ status = "success" => ~Fails(pool.next <= Len(pool.jobs), Count("error"))
  BY DEF ExecutionEnds
<1>3. Count("error") \in Nat /\ Count("upgraded") \in Nat
  BY CountIs
<1>4. /\ upgrading' \in Upgradings /\ upgrading'.at = "done" /\ upgrading'.chosen = upgrading.chosen
      /\ upgrading'.plan = upgrading.plan /\ upgrading'.profile = upgrading.profile
      /\ upgrading'.exit = status
  BY <1>2, <1>3, CommandForm DEF Upgradings
<1>5. /\ pool' \in Pools /\ pool'.phase = NotYet /\ pool'.jobs = pool.jobs /\ pool'.next = pool.next
      /\ pool'.open = pool.open /\ pool'.worker = pool.worker /\ pool'.answers = pool.answers
  BY <1>1, PoolForm DEF BulkInv, BulkTypes, Pools
<1>6. BulkTypes'
  BY <1>1, <1>4, <1>5 DEF BulkInv, BulkTypes, PlannedProfiles
<1>7. JobsSound'
  BY <1>4, <1>5, CommandForm DEF JobsSound
<1>8. PoolSound'
  BY <1>5 DEF BulkInv, PoolSound
<1>9. PhaseSound'
  BY <1>1, <1>4, <1>5 DEF PhaseSound, NotYet, Drained, Over
<1>10. WorkSound'
  BY <1>1, <1>4 DEF BulkInv, WorkSound, UpgradedOnce
<1>11. AnswersSound'
  BY <1>4 DEF AnswersSound
<1>12. pool.jobs = upgrading.chosen
  BY <1>1 DEF BulkInv, PhaseSound
<1>13. ASSUME NEW i \in DOMAIN upgrading.chosen
       PROVE  /\ pool.answers[i] # "none" /\ pool.answers[i] \in Answer
              /\ pool.answers[i] # "error" => storage[upgrading.chosen[i].document].state # "old"
  <2>1. i \in 1..Len(pool.jobs) /\ i \in DOMAIN pool.jobs
    BY <1>12, PoolForm
  <2>2. pool.answers[i] \in Answer
    BY <2>1, PoolForm
  <2>3. \A w \in Workers : pool.worker[w] = 0
    BY <1>1 DEF Drained, Over, Idle
  <2>4. ~pool.open
    BY <1>1 DEF Drained
  <2>5. i # 0
    BY <2>1
  <2>6. /\ pool.answers[i] # "none"
        /\ pool.answers[i] \in {"upgraded", "unchanged"} => storage[pool.jobs[i].document].state # "old"
    BY <1>1, <2>1, <2>3, <2>4, <2>5 DEF BulkInv, AnswersSound
  <2> QED
    BY <1>12, <2>2, <2>6 DEF Answer
<1>14. ASSUME status = "success", NEW i \in DOMAIN upgrading.chosen
       PROVE  storage[upgrading.chosen[i].document].state # "old"
  <2>1. ~(Count("error") > 0)
    BY <1>2, <1>14 DEF Fails
  <2>2. Count("error") = 0
    BY <1>3, <2>1
  <2>3. i \in DOMAIN pool.answers
    BY <1>12, PoolForm
  <2>4. pool.answers[i] # "error"
    BY <2>2, <2>3, CountIs
  <2> QED
    BY <1>13, <2>4
<1>15. ReportSound'
  <2>1. Len(pool.answers) = Len(upgrading.chosen)
    BY <1>12, PoolForm
  <2> QED
    BY <1>1, <1>4, <1>5, <1>13, <1>14, <2>1 DEF ReportSound, ReportTrue
<1> QED
  BY <1>6, <1>7, <1>8, <1>9, <1>10, <1>11, <1>15 DEF BulkInv

-----------------------------------------------------------------------------
(* A bulk upgrade: what the invariant shows.                                *)

LEMMA BulkStep ==
  BulkInv /\ [BulkNext]_bulkVars => BulkInv'
<1> SUFFICES ASSUME BulkInv, [BulkNext]_bulkVars PROVE BulkInv'
  OBVIOUS
<1>1. CASE PoolStep
  BY <1>1, CloseKeepsReport, StopKeepsReport, DispatchKeepsReport, PlanItemKeepsReport,
     UpgradeKeepsReport, UpgradeFailureKeepsReport DEF PoolStep
<1>2. CASE CommandStep
  BY <1>2, PlanningKeepsReport, PlanEndKeepsReport, ExecutionStartKeepsReport,
     ExecutionEndKeepsReport DEF CommandStep
<1>3. CASE DeclineBulk \/ BulkExpires \/ AbandonBulk
  BY <1>3, DeclineKeepsReport, ExpiryKeepsReport, AbandonmentKeepsReport
<1>4. ASSUME NEW d \in Documents, ChangeElsewhere(d)
      PROVE  BulkInv'
  BY <1>4, ChangeKeepsReport
<1>5. CASE UNCHANGED bulkVars
  <2>1. BulkTypes' /\ JobsSound' /\ PoolSound' /\ PhaseSound'
    BY <1>5 DEF bulkVars, BulkInv, BulkTypes, JobsSound, PoolSound, PhaseSound, PlannedProfiles,
                Drained, Over
  <2>2. WorkSound' /\ AnswersSound' /\ ReportSound'
    BY <1>5 DEF bulkVars, BulkInv, WorkSound, UpgradedOnce, AnswersSound, ReportSound, ReportTrue
  <2> QED
    BY <2>1, <2>2 DEF BulkInv
<1> QED
  BY <1>1, <1>2, <1>3, <1>4, <1>5 DEF BulkNext

LEMMA BulkInvariance == BulkSpec => []BulkInv
<1>1. BulkInit => BulkInv
  BY BulkStarts
<1>2. BulkInv /\ [BulkNext]_bulkVars => BulkInv'
  BY BulkStep
<1> QED
  BY <1>1, <1>2, PTL DEF BulkSpec

(* One command starts no document's upgrade twice, however the manifests of *)
(* its profiles overlap, whichever of them could inspect the document, and  *)
(* however its workers interleave; and once an execution                    *)
(* is over every chosen document has an answer, none of them says upgraded  *)
(* or unchanged of a document still old, and a success leaves none old      *)
(* (cli/upgrade.go runBulkUpgrade and executeAllProfileUpgrades, upgrade.go *)
(* PlanBulkUpgrade and ExecuteBulkUpgrade).                                 *)
THEOREM BulkReportIsTrue == BulkSpec => []BulkTrue
<1>1. BulkInv => BulkTrue
  BY DEF BulkInv, WorkSound, ReportSound, BulkTrue
<1> QED
  BY <1>1, BulkInvariance, PTL
-----------------------------------------------------------------------------
(* Lists.                                                                   *)
LEMMA SeqIsList ==
  ASSUME NEW S, NEW s \in Seq(S)
  PROVE  IsList(s)
<1>1. PICK n \in Nat : n = Len(s)
  OBVIOUS
<1>2. DOMAIN s = 1..n /\ s = [i \in 1..n |-> s[i]]
  BY <1>1
<1>3. s \in [1..n -> {s[i] : i \in DOMAIN s}]
  BY <1>2
<1> QED
  BY <1>3 DEF IsList

LEMMA ListIs ==
  ASSUME NEW s, IsList(s)
  PROVE  /\ Len(s) \in Nat /\ DOMAIN s = 1..Len(s) /\ s = [i \in 1..Len(s) |-> s[i]]
         /\ \E S : s \in Seq(S)
<1>1. s \in Seq({s[i] : i \in DOMAIN s})
  BY DEF IsList
<1> QED
  BY <1>1

LEMMA FunctionIsList ==
  ASSUME NEW n \in Nat, NEW f, f = [i \in 1..n |-> f[i]]
  PROVE  IsList(f) /\ Len(f) = n
<1>1. f \in [1..n -> {f[i] : i \in 1..n}]
  OBVIOUS
<1>2. f \in Seq({f[i] : i \in 1..n}) /\ Len(f) = n
  BY <1>1
<1> QED
  BY <1>2, SeqIsList

LEMMA ConcatIsList ==
  ASSUME NEW s, NEW t, IsList(s), IsList(t)
  PROVE  IsList(s \o t)
<1>1. PICK S, T : s \in Seq(S) /\ t \in Seq(T)
  BY ListIs
<1>2. s \in Seq(S \cup T) /\ t \in Seq(S \cup T)
  <2>1. s \in [1..Len(s) -> S \cup T] /\ Len(s) \in Nat
    BY <1>1
  <2>2. t \in [1..Len(t) -> S \cup T] /\ Len(t) \in Nat
    BY <1>1
  <2> QED
    BY <2>1, <2>2
<1>3. s \o t \in Seq(S \cup T)
  BY <1>2
<1> QED
  BY <1>3, SeqIsList

LEMMA PickedIsList ==
  ASSUME NEW s, NEW I, IsFiniteSet(I)
  PROVE  IsList(Picked(s, I)) /\ Len(Picked(s, I)) = Cardinality(I)
<1>1. PICK n \in Nat : n = Cardinality(I)
  BY FS_CardinalityType
<1>2. PICK p : p = Picked(s, I)
  OBVIOUS
<1>3. p = [k \in 1..n |-> s[InOrder(I)[k]]]
  BY <1>1, <1>2 DEF Picked
<1>4. p = [k \in 1..n |-> p[k]]
  BY <1>3
<1> QED
  BY <1>1, <1>2, <1>4, FunctionIsList

(* What a selection holds comes from what was selected from.                *)
LEMMA PickedHolds ==
  ASSUME NEW s, NEW I, I \subseteq Int, IsFiniteSet(I)
  PROVE  \A k \in 1..Len(Picked(s, I)) : \E i \in I : Picked(s, I)[k] = s[i]
<1>1. PICK n \in Nat : n = Cardinality(I)
  BY FS_CardinalityType
<1>2. Len(Picked(s, I)) = n
  BY <1>1, PickedIsList
<1>3. PICK g : g = InOrder(I)
  OBVIOUS
<1>4. g \in [1..n -> I]
  BY <1>1, <1>3, InOrderIs
<1>5. Picked(s, I) = [k \in 1..n |-> s[g[k]]]
  BY <1>1, <1>3 DEF Picked
<1> QED
  BY <1>2, <1>4, <1>5

(* A set of numbers that holds 1 and each successor reaches n.             *)
LEMMA Reaches ==
  ASSUME NEW n \in Nat, NEW G \in SUBSET (1..n), 1 \in G,
         \A k \in G : k # n => k + 1 \in G
  PROVE  n \in G
<1>1. IsFiniteSet(1..n) /\ 1..n \subseteq Int
  BY FS_Interval
<1>2. IsFiniteSet(G) /\ G \subseteq Int
  BY <1>1, FS_Subset
<1>3. PICK k \in G : \A m \in G : m <= k
  BY <1>2, GreatestExists
<1>4. k \in Int /\ (k + 1 \in G => k + 1 <= k)
  BY <1>2, <1>3
<1>5. ~(k + 1 \in G)
  BY <1>4
<1> QED
  BY <1>3, <1>5

(* What FlattenSeq recurs to.                                               *)
LEMMA FlattenIs ==
  ASSUME NEW seqs, NEW n \in Nat \ {0}, Len(seqs) = n
  PROVE  \E g : /\ FlattenSeq(seqs) = g[n]
                /\ \A i \in 1..n : g[i] = IF i = 1 THEN seqs[i] ELSE g[i - 1] \o seqs[i]
<1> DEFINE Step(g, i) == IF i = 1 THEN seqs[i] ELSE g[i - 1] \o seqs[i]
           Good == {k \in 1..n : \E g : g = [i \in 1..k |-> Step(g, i)]}
<1>1. 1 \in Good
  <2>1. PICK g : g = [i \in 1..1 |-> seqs[i]]
    OBVIOUS
  <2>2. g = [i \in 1..1 |-> Step(g, i)]
    BY <2>1
  <2> HIDE DEF Step
  <2> QED BY <2>2
<1>2. ASSUME NEW k \in Good, k # n PROVE k + 1 \in Good
  <2>1. k \in 1..n
    OBVIOUS
  <2>2. PICK g : g = [i \in 1..k |-> Step(g, i)]
    OBVIOUS
  <2>3. PICK h : h = [i \in 1..(k + 1) |-> Step(g, i)]
    OBVIOUS
  <2>4. \A i \in 1..k : h[i] = g[i]
    <3> HIDE DEF Step
    <3> QED BY <2>1, <2>2, <2>3
  <2>5. ASSUME NEW i \in 1..(k + 1) PROVE Step(g, i) = Step(h, i)
    <3>1. i # 1 => i - 1 \in 1..k
      BY <2>1
    <3> QED
      BY <2>4, <3>1
  <2>6. h = [i \in 1..(k + 1) |-> Step(h, i)]
    <3> HIDE DEF Step
    <3> QED BY <2>3, <2>5
  <2>7. k + 1 \in 1..n
    BY <1>2, <2>1
  <2> HIDE DEF Step
  <2> QED BY <2>6, <2>7
<1>3. n \in Good
  <2>1. Good \in SUBSET (1..n)
    OBVIOUS
  <2> HIDE DEF Good
  <2> QED BY <1>1, <1>2, <2>1, Reaches
<1>4. PICK g : g = CHOOSE f : f = [i \in 1..n |-> Step(f, i)]
  OBVIOUS
<1>5. g = [i \in 1..n |-> Step(g, i)]
  <2> HIDE DEF Step
  <2>1. \E f : f = [i \in 1..n |-> Step(f, i)]
    BY <1>3
  <2> QED BY <1>4, <2>1
<1>6. FlattenSeq(seqs) = g[n]
  BY <1>4 DEF FlattenSeq
<1>7. \A i \in 1..n : g[i] = Step(g, i)
  <2> HIDE DEF Step
  <2> QED BY <1>5
<1> QED
  BY <1>6, <1>7

(* What a list holds.                                                       *)
LEMMA ConcatHolds ==
  ASSUME NEW s, NEW t, IsList(s), IsList(t)
  PROVE  Range(s \o t) = Range(s) \cup Range(t)
<1>1. PICK S, T : s \in Seq(S) /\ t \in Seq(T)
  BY ListIs
<1>2. PICK m \in Nat, n \in Nat : m = Len(s) /\ n = Len(t) /\ DOMAIN s = 1..m /\ DOMAIN t = 1..n
  BY <1>1
<1>3. PICK u : u = s \o t
  OBVIOUS
<1>4. /\ DOMAIN u = 1..(m + n)
      /\ \A i \in 1..m : u[i] = s[i]
      /\ \A i \in 1..n : u[m + i] = t[i]
  BY <1>1, <1>2, <1>3
<1>5. ASSUME NEW i \in 1..(m + n) PROVE u[i] \in Range(s) \cup Range(t)
  <2>1. CASE i \in 1..m
    BY <1>2, <1>4, <2>1 DEF Range
  <2>2. CASE i \notin 1..m
    <3>1. i - m \in 1..n /\ m + (i - m) = i
      BY <1>2, <2>2
    <3>2. t[i - m] = u[i]
      BY <1>4, <3>1
    <3> QED
      BY <1>2, <3>1, <3>2 DEF Range
  <2> QED
    BY <2>1, <2>2
<1>6. ASSUME NEW i \in 1..m PROVE s[i] \in Range(u)
  <2>1. i \in 1..(m + n) /\ u[i] = s[i]
    BY <1>2, <1>4
  <2> QED
    BY <1>4, <2>1 DEF Range
<1>7. ASSUME NEW i \in 1..n PROVE t[i] \in Range(u)
  <2>1. m + i \in 1..(m + n) /\ u[m + i] = t[i]
    BY <1>2, <1>4
  <2> QED
    BY <1>4, <2>1 DEF Range
<1>8. Range(u) \subseteq Range(s) \cup Range(t)
  BY <1>4, <1>5 DEF Range
<1>9. Range(s) \subseteq Range(u) /\ Range(t) \subseteq Range(u)
  BY <1>2, <1>6, <1>7 DEF Range
<1> QED
  BY <1>3, <1>8, <1>9

(* Lists put one after the other are a list, and hold what each holds.      *)
LEMMA FlattenIsList ==
  ASSUME NEW seqs, IsList(seqs), \A i \in DOMAIN seqs : IsList(seqs[i])
  PROVE  /\ IsList(FlattenSeq(seqs))
         /\ \A x : x \in Range(FlattenSeq(seqs)) <=> \E i \in DOMAIN seqs : x \in Range(seqs[i])
<1>1. PICK n \in Nat : n = Len(seqs) /\ DOMAIN seqs = 1..n
  BY ListIs
<1>2. CASE n = 0
  <2>1. FlattenSeq(seqs) = seqs /\ DOMAIN seqs = {}
    BY <1>1, <1>2 DEF FlattenSeq
  <2> QED
    BY <2>1 DEF Range
<1>3. CASE n # 0
  <2>1. PICK g : /\ FlattenSeq(seqs) = g[n]
                 /\ \A i \in 1..n : g[i] = IF i = 1 THEN seqs[i] ELSE g[i - 1] \o seqs[i]
    BY <1>1, <1>3, FlattenIs
  <2> DEFINE Whole == {k \in 1..n : /\ IsList(g[k])
                                    /\ \A x : x \in Range(g[k]) <=>
                                         \E i \in 1..k : x \in Range(seqs[i])}
  <2>2. 1 \in Whole
    <3>1. g[1] = seqs[1] /\ 1 \in 1..n
      BY <1>1, <1>3, <2>1
    <3>2. \A i \in 1..1 : i = 1
      OBVIOUS
    <3> QED
      BY <1>1, <3>1, <3>2
  <2>3. ASSUME NEW k \in Whole, k # n PROVE k + 1 \in Whole
    <3>1. /\ k \in 1..n /\ IsList(g[k])
          /\ \A x : x \in Range(g[k]) <=> \E i \in 1..k : x \in Range(seqs[i])
      OBVIOUS
    <3> HIDE DEF Whole
    <3>2. k + 1 \in 1..n /\ (k + 1) - 1 = k /\ k + 1 # 1
      BY <1>1, <2>3, <3>1
    <3>3. g[k + 1] = g[k] \o seqs[k + 1] /\ IsList(seqs[k + 1])
      BY <1>1, <2>1, <3>2
    <3>4. IsList(g[k + 1])
      BY <3>1, <3>3, ConcatIsList
    <3>5. Range(g[k + 1]) = Range(g[k]) \cup Range(seqs[k + 1])
      BY <3>1, <3>3, ConcatHolds
    <3>6. \A i : i \in 1..(k + 1) <=> (i \in 1..k \/ i = k + 1)
      BY <3>1
    <3>7. \A x : x \in Range(g[k + 1]) <=> \E i \in 1..(k + 1) : x \in Range(seqs[i])
      BY <3>1, <3>5, <3>6
    <3> QED
      BY <3>2, <3>4, <3>7 DEF Whole
  <2>4. n \in Whole
    <3>1. Whole \in SUBSET (1..n)
      OBVIOUS
    <3> HIDE DEF Whole
    <3> QED BY <2>2, <2>3, <3>1, Reaches
  <2> QED
    BY <1>1, <2>1, <2>4
<1> QED
  BY <1>2, <1>3

-----------------------------------------------------------------------------
(* What is encoded is read back.                                            *)
IsRecord(m) == m = [f \in DOMAIN Blank |-> m[f]]
Views == {"page", "pageBytes", "pageDigest", "source"}
Contents == {"version", "kind", "slug", "format", "objects", "title", "repo", "producer", "render",
             "revision", "entrypoint", "pages"}

(* Two records that differ at most in their views.                          *)
SameContents(m, n) == IsRecord(m) /\ IsRecord(n) /\ \A f \in Contents : m[f] = n[f]

LEMMA BlankFields ==
  /\ IsRecord(Blank) /\ DOMAIN Blank = Contents \cup Views
  /\ Contents \cap Views = {}
BY DEF Blank, IsRecord, Contents, Views

LEMMA FieldsReadIn ==
  ASSUME NEW v \in 3..Current
  PROVE  /\ FieldsRead(v) \subseteq Contents /\ Required(v) \subseteq FieldsRead(v)
         /\ Required(v) = {"version", "kind", "objects"}
         /\ v >= 4 => Contents \subseteq FieldsRead(v) \cup {"entrypoint", "pages"}
         /\ v >= 6 => FieldsRead(v) = Contents
<1>1. v \in Int /\ v > 2
  BY DEF Current
<1> QED
  BY <1>1 DEF FieldsRead, Required, Contents

LEMMA WithViewsIs ==
  ASSUME NEW m, IsRecord(m)
  PROVE  IsRecord(WithViews(m)) /\ SameContents(WithViews(m), m)
<1> SUFFICES ASSUME NEW n, NEW a, NEW b, NEW c, NEW d,
                    n = [m EXCEPT !.page = a, !.pageBytes = b, !.pageDigest = c, !.source = d]
             PROVE  IsRecord(n) /\ SameContents(n, m)
  BY DEF WithViews
<1>1. DOMAIN m = DOMAIN Blank
  BY DEF IsRecord
<1>2. IsRecord(n)
  BY <1>1 DEF IsRecord
<1>3. \A f \in Contents : n[f] = m[f]
  BY <1>1, BlankFields DEF Views
<1> QED
  BY <1>2, <1>3 DEF SameContents

LEMMA SameViews ==
  ASSUME NEW m, NEW n, SameContents(m, n)
  PROVE  WithViews(m) = WithViews(n)
<1> DEFINE Seen(r, a, b, c, d) == [r EXCEPT !.page = a, !.pageBytes = b, !.pageDigest = c, !.source = d]
<1>1. \E a, b, c, d : WithViews(m) = Seen(m, a, b, c, d) /\ WithViews(n) = Seen(n, a, b, c, d)
  <2>1. /\ m.version = n.version /\ m.kind = n.kind /\ m.objects = n.objects
        /\ m.entrypoint = n.entrypoint /\ m.pages = n.pages
    BY DEF SameContents, Contents
  <2> DEFINE entry == Named(m.objects, m.entrypoint)
             main == OfRole(m.objects, "page")[1]
             sources == OfRole(m.objects, "source")
  <2>2. CASE m.version >= 6 /\ m.kind = "document"
    <3>1. WithViews(m) = Seen(m, m.entrypoint, entry.bytes, entry.digest,
                              IF m.pages # <<>> THEN m.pages[1].source ELSE NoPath)
      BY <2>2 DEF WithViews
    <3>2. WithViews(n) = Seen(n, m.entrypoint, entry.bytes, entry.digest,
                              IF m.pages # <<>> THEN m.pages[1].source ELSE NoPath)
      BY <2>1, <2>2 DEF WithViews
    <3> HIDE DEF Seen, entry
    <3> QED BY <3>1, <3>2
  <2>3. CASE ~(m.version >= 6 /\ m.kind = "document")
    <3>1. WithViews(m) = Seen(m, main.name, main.bytes, main.digest,
                              IF sources # <<>> THEN sources[1].name ELSE NoPath)
      BY <2>3 DEF WithViews
    <3>2. WithViews(n) = Seen(n, main.name, main.bytes, main.digest,
                              IF sources # <<>> THEN sources[1].name ELSE NoPath)
      BY <2>1, <2>3 DEF WithViews
    <3> HIDE DEF Seen, main, sources
    <3> QED BY <3>1, <3>2
  <2> QED
    BY <2>2, <2>3
<1>2. PICK a, b, c, d : WithViews(m) = Seen(m, a, b, c, d) /\ WithViews(n) = Seen(n, a, b, c, d)
  BY <1>1
<1>3. PICK p, q : p = Seen(m, a, b, c, d) /\ q = Seen(n, a, b, c, d)
  OBVIOUS
<1>4. DOMAIN m = DOMAIN Blank /\ DOMAIN n = DOMAIN Blank
  BY DEF SameContents, IsRecord
<1>5. p = [f \in DOMAIN Blank |-> p[f]] /\ q = [f \in DOMAIN Blank |-> q[f]]
  BY <1>3, <1>4
<1>6. \A f \in Contents : p[f] = m[f] /\ q[f] = n[f]
  BY <1>3, <1>4, BlankFields DEF Views
<1>7. \A f \in Views : p[f] = q[f]
  BY <1>3, <1>4, BlankFields DEF Views
<1>8. \A f \in DOMAIN Blank : p[f] = q[f]
  BY <1>6, <1>7, BlankFields DEF SameContents
<1> HIDE DEF Seen
<1> QED
  BY <1>2, <1>3, <1>5, <1>8

LEMMA SameIsValid ==
  ASSUME NEW m, NEW n, SameContents(m, n), NEW kind, m.version >= 3, Valid(m, kind)
  PROVE  Valid(n, kind)
<1>1. /\ m.version = n.version /\ m.kind = n.kind /\ m.slug = n.slug /\ m.format = n.format
      /\ m.objects = n.objects /\ m.producer = n.producer /\ m.render = n.render
      /\ m.revision = n.revision /\ m.entrypoint = n.entrypoint /\ m.pages = n.pages
  BY DEF SameContents, Contents
<1>2. \A o : ValidObject(m, o) = ValidObject(n, o)
  BY <1>1 DEF ValidObject
<1>3. ValidRevision(m) = ValidRevision(n)
  BY <1>1 DEF ValidRevision
<1>4. ValidRender(m) = ValidRender(n)
  BY <1>1 DEF ValidRender
<1>5. ValidDiff(m) = ValidDiff(n)
  BY <1>1 DEF ValidDiff
<1>6. ValidCollection(m) = ValidCollection(n)
  BY <1>1 DEF ValidCollection
<1>7. ValidSinglePage(m) = ValidSinglePage(n)
  BY <1>1, <1>5 DEF ValidSinglePage, SourceMatches
<1>8. \A i : ValidDescriptor(m, i) = ValidDescriptor(n, i)
  BY <1>1 DEF ValidDescriptor
<1>9. ASSUME ValidBundle(m) PROVE ValidBundle(n)
  <2> DEFINE pages == OfRole(n.objects, "page")
             sources == OfRole(n.objects, "source")
             used == {i \in DOMAIN n.pages : n.pages[i].source # NoPath}
  <2>1. /\ n.slug # "" /\ OfRole(n.objects, "file") = <<>>
        /\ NoCollisions(NamesOf(n.objects))
        /\ n.entrypoint = <<<<n.slug, "html">>>> /\ n.entrypoint \in NamesOf(pages)
    BY <1>1, <1>9 DEF ValidBundle
  <2>2. (CASE n.format = "html" -> Len(pages) = 1 /\ n.pages = <<>> /\ sources = <<>>
           [] n.format = "txt" -> Len(pages) = 1 /\ Len(n.pages) = 1
           [] n.format = "md" -> Len(pages) = Len(n.pages)
           [] OTHER -> FALSE)
    BY <1>1, <1>9 DEF ValidBundle
  <2>3. n.format # "html" => n.pages # <<>> /\ n.pages[1].format = n.format
    BY <1>1, <1>9 DEF ValidBundle
  <2>4. \A i \in DOMAIN n.pages : ValidDescriptor(n, i)
    BY <1>1, <1>8, <1>9 DEF ValidBundle
  <2>5. \A i, j \in DOMAIN n.pages : i # j =>
           /\ Folded(n.pages[i].path) # Folded(n.pages[j].path)
           /\ n.pages[i].page # n.pages[j].page
           /\ n.pages[i].source = NoPath \/ n.pages[i].source # n.pages[j].source
    <3>1. \A i, j \in DOMAIN m.pages : i # j =>
             /\ Folded(m.pages[i].path) # Folded(m.pages[j].path)
             /\ m.pages[i].page # m.pages[j].page
             /\ m.pages[i].source = NoPath \/ m.pages[i].source # m.pages[j].source
      BY <1>9 DEF ValidBundle
    <3> QED
      BY <1>1, <3>1
  <2>6. Cardinality(used) = Len(sources) /\ ValidDiff(n)
    BY <1>1, <1>5, <1>9 DEF ValidBundle
  <2> QED
    BY <2>1, <2>2, <2>3, <2>4, <2>5, <2>6 DEF ValidBundle
<1>10. ValidModern(m) => ValidModern(n)
  BY <1>1, <1>2, <1>3, <1>4, <1>6, <1>7, <1>9 DEF ValidModern
<1> QED
  BY <1>1, <1>10 DEF Valid

(* What this release declares: a record of version 4 or later, valid.       *)
Declarable(s) ==
  /\ IsRecord(s) /\ s.version \in 4..Current /\ Valid(s, s.kind)
  /\ IsList(s.objects) /\ IsPages(s.pages)

LEMMA HasObjects ==
  ASSUME NEW m, ValidModern(m)
  PROVE  m.objects # <<>>
<1> SUFFICES ASSUME m.objects = <<>> PROVE FALSE
  OBVIOUS
<1>1. {i \in DOMAIN m.objects : m.objects[i].role = "page"} = {}
  OBVIOUS
<1>2. OfRole(m.objects, "page") = Picked(<<>>, {})
  BY <1>1 DEF OfRole
<1>3. Picked(<<>>, {}) = <<>>
  <2>1. Cardinality({}) = 0
    BY FS_EmptySet
  <2> QED
    BY <2>1 DEF Picked
<1> QED
  BY <1>2, <1>3 DEF ValidModern

LEMMA ReadsBack ==
  ASSUME NEW s, Declarable(s)
  PROVE  SameContents(s, Read(Encoded(s)))
<1>1. PICK v \in 4..Current : v = s.version
  BY DEF Declarable
<1>2. v \in 3..Current /\ v # 3 /\ v >= 3
  BY DEF Current
<1>3. ValidModern(s)
  BY <1>1, <1>2 DEF Declarable, Valid
<1> DEFINE w == Encoded(s)
           present == {f \in FieldsRead(v) : f \in Required(v) \/ s[f] # Blank[f]}
<1>4. w = [f \in present |-> s[f]]
  BY <1>1 DEF Encoded
<1>5. "version" \in present
  BY <1>2, FieldsReadIn
<1>6. DOMAIN w = present /\ w.version = v
  BY <1>1, <1>4, <1>5
<1>7. Read(w) = [f \in DOMAIN Blank |-> IF f \in present \cap FieldsRead(v) THEN w[f] ELSE Blank[f]]
  <2> HIDE DEF w, present
  <2> QED BY <1>2, <1>6 DEF Read
<1>8. ASSUME NEW f \in Contents PROVE s[f] = Read(w)[f]
  <2>1. f \in DOMAIN Blank
    BY BlankFields
  <2>2. CASE f \in present
    <3> HIDE DEF w
    <3> QED BY <1>4, <1>7, <2>1, <2>2
  <2>3. CASE f \in FieldsRead(v) /\ f \notin present
    <3>1. s[f] = Blank[f]
      BY <2>3
    <3> HIDE DEF w
    <3> QED BY <1>7, <2>1, <2>3, <3>1
  <2>4. CASE f \notin FieldsRead(v)
    <3>1. f \in {"entrypoint", "pages"} /\ v < 6
      BY <1>1, <1>2, <2>4, FieldsReadIn DEF Current
    <3>2. s.entrypoint = NoPath /\ s.pages = <<>>
      BY <1>1, <1>3, <3>1 DEF ValidModern
    <3>3. Blank.entrypoint = NoPath /\ Blank.pages = <<>>
      BY DEF Blank
    <3> HIDE DEF w
    <3> QED BY <1>7, <2>1, <2>4, <3>1, <3>2, <3>3
  <2> QED
    BY <2>2, <2>3, <2>4
<1>9. IsRecord(Read(w))
  <2> HIDE DEF w, present
  <2> QED BY <1>7 DEF IsRecord
<1> QED
  BY <1>8, <1>9 DEF SameContents, Declarable

(* A declared record survives encoding and decoding.                        *)
LEMMA EncodedIsAccepted ==
  ASSUME NEW s, Declarable(s)
  PROVE  Accepted(Encoded(s), s.kind) /\ Decoded(Encoded(s)) = Normalized(s)
<1>1. PICK v \in 4..Current : v = s.version
  BY DEF Declarable
<1>2. v \in 3..Current /\ v >= 3 /\ v # 1 /\ v \in 1..Current
  BY DEF Current
<1>3. ValidModern(s)
  BY <1>1, <1>2 DEF Declarable, Valid
<1> DEFINE w == Encoded(s)
           present == {f \in FieldsRead(v) : f \in Required(v) \/ s[f] # Blank[f]}
<1>4. w = [f \in present |-> s[f]]
  BY <1>1 DEF Encoded
<1>5. {"version", "kind", "objects"} \subseteq present /\ present \subseteq Contents
  BY <1>2, FieldsReadIn
<1>6. DOMAIN w = present /\ w.version = v /\ w.objects = s.objects
  BY <1>1, <1>4, <1>5
<1>7. SameContents(s, Read(w))
  BY ReadsBack
<1>8. Read(w).version = v
  BY <1>1, <1>7 DEF SameContents, Contents
<1> HIDE DEF w
<1>9. Valid(Read(w), s.kind)
  BY <1>1, <1>2, <1>7, SameIsValid DEF Declarable
<1>10. DOMAIN w \cap {"page", "pageBytes", "source"} = {}
  <2> HIDE DEF present
  <2> QED BY <1>5, <1>6, BlankFields DEF Views
<1>11. \A f \in {"title", "repo", "slug", "format", "source"} \cap FieldsRead(w.version) :
         f \in DOMAIN w => w[f] # Blank[f]
  <2>1. ASSUME NEW f \in present, f \in {"title", "repo", "slug", "format", "source"} PROVE w[f] # Blank[f]
    <3>1. f \notin Required(v)
      BY <1>2, <2>1, FieldsReadIn
    <3>2. s[f] # Blank[f]
      BY <3>1
    <3> QED
      BY <1>4, <3>2
  <2> HIDE DEF present
  <2> QED BY <1>6, <2>1
<1>12. Required(w.version) \subseteq DOMAIN w /\ "version" \in DOMAIN w
  <2> HIDE DEF present
  <2> QED BY <1>2, <1>5, <1>6, FieldsReadIn
<1> HIDE DEF present
<1>13. Accepted(w, s.kind)
  BY <1>2, <1>3, <1>6, <1>9, <1>10, <1>11, <1>12, HasObjects DEF Accepted
<1>14. Decoded(w) = WithViews(Read(w)) /\ Normalized(s) = WithViews(s)
  BY <1>1, <1>2, <1>8 DEF Decoded, Normalized
<1>15. Decoded(w) = Normalized(s)
  BY <1>7, <1>14, SameViews
<1> QED
  BY <1>13, <1>15 DEF w

-----------------------------------------------------------------------------
(* Every record that is made, read or written has lists of objects and      *)
(* pages.                                                                   *)
HasLists(m) == IsRecord(m) /\ IsList(m.objects) /\ IsPages(m.pages)

LEMMA EmptyIsList == IsList(<<>>)
<1>1. <<>> \in Seq({})
  OBVIOUS
<1> QED
  BY <1>1, SeqIsList

LEMMA OneIsList ==
  ASSUME NEW a
  PROVE  IsList(<<a>>)
<1>1. <<a>> \in Seq({a})
  OBVIOUS
<1> QED
  BY <1>1, SeqIsList

LEMMA IndicesFinite ==
  ASSUME NEW s, IsList(s), NEW I, I \subseteq DOMAIN s
  PROVE  IsFiniteSet(I) /\ I \subseteq Int
<1>1. PICK n \in Nat : DOMAIN s = 1..n
  BY ListIs
<1>2. IsFiniteSet(1..n) /\ 1..n \subseteq Int
  BY FS_Interval
<1> QED
  BY <1>1, <1>2, FS_Subset

LEMMA OfRoleIsList ==
  ASSUME NEW s, IsList(s), NEW role
  PROVE  IsList(OfRole(s, role)) /\ IsList(Unlike(s, role))
<1>1. /\ IsFiniteSet({i \in DOMAIN s : s[i].role = role})
      /\ IsFiniteSet({i \in DOMAIN s : s[i].role # role})
  BY IndicesFinite
<1> QED
  BY <1>1, PickedIsList DEF OfRole, Unlike

(* What is made from a list index by index is a list.                       *)
LEMMA MappedIsList ==
  ASSUME NEW s, IsList(s), NEW f, f = [i \in DOMAIN s |-> f[i]]
  PROVE  IsList(f)
<1>1. PICK n \in Nat : DOMAIN s = 1..n
  BY ListIs
<1> QED
  BY <1>1, FunctionIsList

LEMMA EmptyIsPages == IsPages(<<>>)
BY EmptyIsList DEF IsPages

LEMMA BlankHasLists == HasLists(Blank) /\ Blank.version = Current
<1>1. Blank.objects = <<>> /\ Blank.pages = <<>> /\ Blank.version = Current
  BY DEF Blank
<1> QED
  BY <1>1, BlankFields, EmptyIsList, EmptyIsPages DEF HasLists

LEMMA PagesAreLists ==
  ASSUME NEW input, IsList(input.pages), IsList(input.assets)
  PROVE  HasLists(DocumentMarker(input)) /\ DocumentMarker(input).version = Current
<1>1. PICK n \in Nat : DOMAIN input.pages = 1..n
  BY ListIs
<1> DEFINE objects(i) ==
             <<Object(PageName(input, i), "page", 1, "digest")>>
             \o (IF SourceName(input, i) = NoPath THEN <<>>
                 ELSE <<Object(SourceName(input, i), "source", 1, "digest")>>)
           each == [i \in DOMAIN input.pages |-> objects(i)]
           assets == [i \in DOMAIN input.assets |-> Object(input.assets[i], "asset", 0, "digest")]
           managed == input.pages[1].format # "html"
           pages == IF ~managed THEN <<>>
                    ELSE [i \in DOMAIN input.pages |->
                              Descriptor(input.pages[i].path, PageName(input, i), SourceName(input, i),
                                         input.pages[i].format)]
           all == FlattenSeq(each) \o assets
<1>2. \A i : IsList(objects(i))
  <2> SUFFICES ASSUME NEW a, NEW b, NEW c
               PROVE  IsList(<<a>> \o (IF c THEN <<>> ELSE <<b>>))
    OBVIOUS
  <2> QED
    BY EmptyIsList, OneIsList, ConcatIsList
<1>3. IsList(each) /\ \A i \in DOMAIN each : IsList(each[i])
  <2> HIDE DEF objects
  <2>1. each = [i \in DOMAIN input.pages |-> each[i]]
    OBVIOUS
  <2> QED BY <1>2, <2>1, MappedIsList
<1>4. IsList(assets)
  <2>1. assets = [i \in DOMAIN input.assets |-> assets[i]]
    OBVIOUS
  <2> HIDE DEF assets
  <2> QED BY <2>1, MappedIsList
<1>5. IsList(all)
  <2> HIDE DEF each, assets
  <2> QED BY <1>3, <1>4, FlattenIsList, ConcatIsList
<1>6. IsPages(pages)
  <2>1. CASE managed
    <3>1. pages = [i \in DOMAIN input.pages |-> pages[i]]
      BY <2>1
    <3>2. \A i \in DOMAIN pages :
            pages[i] = Descriptor(pages[i].path, pages[i].page, pages[i].source, pages[i].format)
      BY <2>1 DEF Descriptor
    <3> HIDE DEF pages
    <3> QED BY <3>1, <3>2, MappedIsList DEF IsPages
  <2>2. CASE ~managed
    BY <2>2, EmptyIsPages
  <2> QED
    BY <2>1, <2>2
<1>7. PICK o, p, r : o = all /\ p = pages /\ r = IF managed THEN <<Recipe("builtin")>> ELSE <<>>
  OBVIOUS
<1>8. DocumentMarker(input) =
        [Blank EXCEPT !.slug = SlugOf(input), !.format = input.pages[1].format, !.producer = "airplan",
                      !.title = "Title", !.entrypoint = PageName(input, 1),
                      !.render = r, !.objects = o, !.pages = p]
  <2>1. DocumentMarker(input) =
          [Blank EXCEPT !.slug = SlugOf(input), !.format = input.pages[1].format, !.producer = "airplan",
                        !.title = "Title", !.entrypoint = PageName(input, 1),
                        !.render = IF managed THEN <<Recipe("builtin")>> ELSE <<>>,
                        !.objects = all, !.pages = pages]
    BY DEF DocumentMarker
  <2> HIDE DEF all, pages
  <2> QED BY <1>7, <2>1
<1> HIDE DEF all, pages
<1> QED
  BY <1>5, <1>6, <1>7, <1>8, BlankFields, BlankHasLists DEF HasLists, IsRecord, Contents

LEMMA MembersAreLists ==
  ASSUME NEW members, IsList(members)
  PROVE  HasLists(CollectionMarker(members)) /\ CollectionMarker(members).version = Current
<1> DEFINE files == [i \in DOMAIN members |-> Object(members[i], "file", 0, "digest")]
           index == <<Object(IndexName, "page", 1, "digest")>>
<1>1. IsList(files)
  <2>1. files = [i \in DOMAIN members |-> files[i]]
    OBVIOUS
  <2> HIDE DEF files
  <2> QED BY <2>1, MappedIsList
<1>2. IsList(index)
  BY OneIsList
<1>3. PICK o : o = index \o files
  OBVIOUS
<1>4. IsList(o)
  <2> HIDE DEF files, index
  <2> QED BY <1>1, <1>2, <1>3, ConcatIsList
<1>5. PICK a, b, c, d : CollectionMarker(members) =
        [Blank EXCEPT !.kind = a, !.producer = b, !.title = c, !.render = d, !.objects = o]
  BY <1>3 DEF CollectionMarker
<1> QED
  BY <1>4, <1>5, BlankFields, BlankHasLists DEF HasLists, IsRecord, Contents

LEMMA RedigestedIsList ==
  ASSUME NEW s, IsList(s)
  PROVE  IsList(Redigested(s))
<1>1. PICK f : f = Redigested(s)
  OBVIOUS
<1>2. f = [i \in DOMAIN s |-> f[i]]
  BY <1>1 DEF Redigested
<1> QED
  BY <1>1, <1>2, MappedIsList

LEMMA RerenderedHasLists ==
  ASSUME NEW m, HasLists(m)
  PROVE  IsList(Rerendered(m).pages) /\ IsList(Rerendered(m).assets)
<1>1. IsList(MarkerPages(m))
  BY OneIsList DEF MarkerPages, HasLists, IsPages
<1>2. IsList(OfRole(m.objects, "asset"))
  BY OfRoleIsList DEF HasLists
<1>3. PICK p : p = [i \in DOMAIN MarkerPages(m) |->
                     [path |-> MarkerPages(m)[i].path, format |-> MarkerPages(m)[i].format]]
  OBVIOUS
<1>4. PICK a : a = [i \in DOMAIN OfRole(m.objects, "asset") |-> OfRole(m.objects, "asset")[i].name]
  OBVIOUS
<1>5. IsList(p)
  <2>1. p = [i \in DOMAIN MarkerPages(m) |-> p[i]]
    BY <1>3
  <2> QED
    BY <1>1, <2>1, MappedIsList
<1>6. IsList(a)
  <2>1. a = [i \in DOMAIN OfRole(m.objects, "asset") |-> a[i]]
    BY <1>4
  <2> QED
    BY <1>2, <2>1, MappedIsList
<1>7. Rerendered(m).pages = p /\ Rerendered(m).assets = a
  BY <1>3, <1>4 DEF Rerendered
<1> QED
  BY <1>5, <1>6, <1>7

LEMMA UpgradedHasLists ==
  ASSUME NEW m, HasLists(m)
  PROVE  HasLists(UpgradedMarker(m, Rerendered(m))) /\ UpgradedMarker(m, Rerendered(m)).version = Current
<1>1. PICK n : n = DocumentMarker(Rerendered(m))
  OBVIOUS
<1>2. HasLists(n) /\ n.version = Current
  BY <1>1, PagesAreLists, RerenderedHasLists
<1> DEFINE kept == Redigested(Unlike(n.objects, "asset"))
           assets == OfRole(m.objects, "asset")
           diffs == IF m.revision # <<>> /\ m.revision[1].number > 1
                    THEN <<Object(DiffName, "diff", 1, "digest")>> ELSE <<>>
<1>3. IsList(kept) /\ IsList(assets) /\ IsList(diffs)
  BY <1>2, OfRoleIsList, RedigestedIsList, OneIsList, EmptyIsList DEF HasLists
<1>4. PICK o : o = kept \o assets \o diffs
  OBVIOUS
<1>5. IsList(o)
  <2> HIDE DEF kept, assets, diffs
  <2> QED BY <1>3, <1>4, ConcatIsList
<1>6. DOMAIN n = DOMAIN Blank
  BY <1>2 DEF HasLists, IsRecord
<1>7. UpgradedMarker(m, Rerendered(m)) =
        [n EXCEPT !.title = m.title, !.repo = m.repo, !.revision = m.revision, !.objects = o]
  <2>1. "objects" \in DOMAIN n
    BY <1>6, BlankFields DEF Contents
  <2>2. UpgradedMarker(m, Rerendered(m)) =
          [n EXCEPT !.title = m.title, !.repo = m.repo, !.revision = m.revision,
                    !.objects = Redigested(Unlike(@, "asset")) \o assets \o diffs]
    BY <1>1 DEF UpgradedMarker
  <2> HIDE DEF assets, diffs
  <2> QED BY <1>4, <2>1, <2>2
<1>8. PICK a, b, c : UpgradedMarker(m, Rerendered(m)) =
        [n EXCEPT !.title = a, !.repo = b, !.revision = c, !.objects = o]
  BY <1>7
<1> QED
  BY <1>2, <1>5, <1>6, <1>8, BlankFields DEF HasLists, IsRecord, Contents

-----------------------------------------------------------------------------
(* Reading and writing.                                                     *)
Listed(wire) ==
  /\ "objects" \in DOMAIN wire => IsList(wire.objects)
  /\ "pages" \in DOMAIN wire => IsPages(wire.pages)

LEMMA ReadIs ==
  ASSUME NEW wire, Listed(wire), "version" \in DOMAIN wire, wire.version \in 1..Current
  PROVE  /\ HasLists(Read(wire)) /\ Read(wire).version = wire.version
         /\ Read(wire).version < 4 => Read(wire).render = <<>> /\ Read(wire).revision = <<>>
<1> DEFINE plain == [f \in DOMAIN Blank |->
                       IF f \in DOMAIN wire \cap FieldsRead(wire.version) THEN wire[f] ELSE Blank[f]]
<1>1. PICK v \in 1..Current : v = wire.version
  OBVIOUS
<1>2. "version" \in FieldsRead(v)
  BY DEF FieldsRead, LegacyFields
<1>3. {"version", "objects", "pages", "render", "revision"} \subseteq DOMAIN Blank
  BY BlankFields DEF Contents
<1>4. PICK m : m = plain
  OBVIOUS
<1>5. IsRecord(m) /\ m.version = v
  BY <1>1, <1>2, <1>3, <1>4 DEF IsRecord
<1>6. IsList(m.objects) /\ IsPages(m.pages)
  <2>1. IsList(Blank.objects) /\ IsPages(Blank.pages)
    BY BlankHasLists DEF HasLists
  <2>2. \A f \in {"objects", "pages"} : m[f] = Blank[f] \/ (f \in DOMAIN wire /\ m[f] = wire[f])
    BY <1>3, <1>4
  <2> QED
    BY <2>1, <2>2 DEF Listed
<1>7. v < 4 => m.render = <<>> /\ m.revision = <<>>
  <2>1. v < 4 => "render" \notin FieldsRead(v) /\ "revision" \notin FieldsRead(v)
    BY DEF FieldsRead, LegacyFields
  <2>2. Blank.render = <<>> /\ Blank.revision = <<>>
    BY DEF Blank
  <2> HIDE DEF plain
  <2>3. v < 4 => m.render = Blank.render /\ m.revision = Blank.revision
    BY <1>1, <1>3, <1>4, <2>1 DEF plain
  <2> QED
    BY <2>2, <2>3
<1>8. CASE v # 3
  <2>1. Read(wire) = m
    BY <1>1, <1>4, <1>8 DEF Read
  <2> QED
    BY <1>1, <1>5, <1>6, <1>7, <2>1 DEF HasLists
<1>9. CASE v = 3
  <2>1. PICK o : o = [i \in DOMAIN m.objects |-> [m.objects[i] EXCEPT !.digest = ""]]
    OBVIOUS
  <2>2. o = [i \in DOMAIN m.objects |-> o[i]]
    BY <2>1
  <2>3. IsList(o)
    BY <1>6, <2>2, MappedIsList
  <2>4. Read(wire) = [m EXCEPT !.objects = o]
    <3>1. Read(wire) = [m EXCEPT !.objects = [i \in DOMAIN m.objects |-> [m.objects[i] EXCEPT !.digest = ""]]]
      BY <1>1, <1>4, <1>9 DEF Read
    <3> QED
      BY <2>1, <3>1
  <2>5. DOMAIN m = DOMAIN Blank
    BY <1>5 DEF IsRecord
  <2> HIDE DEF plain
  <2> QED
    BY <1>1, <1>3, <1>5, <1>6, <1>7, <2>3, <2>4, <2>5 DEF HasLists, IsRecord
<1> QED
  BY <1>8, <1>9

LEMMA StrippedIs ==
  ASSUME NEW m, HasLists(m), m.version \in 4..Current
  PROVE  /\ HasLists(Stripped(m)) /\ Stripped(m).version = m.version /\ Stripped(m).kind = m.kind
<1>1. m.version # 3 /\ DOMAIN m = DOMAIN Blank
  BY DEF HasLists, IsRecord
<1>2. {"version", "kind", "objects", "pages", "render"} \subseteq DOMAIN Blank
  BY BlankFields DEF Contents
<1>3. PICK r : r = <<[m.render[1] EXCEPT !.themes = ""]>>
  OBVIOUS
<1>4. Stripped(m) = m \/ Stripped(m) = [m EXCEPT !.render = r]
  <2>1. CASE m.version = 4 /\ m.render # <<>>
    BY <1>1, <1>3, <2>1 DEF Stripped
  <2>2. CASE ~(m.version = 4 /\ m.render # <<>>)
    BY <1>1, <2>2 DEF Stripped
  <2> QED
    BY <2>1, <2>2
<1>5. [m EXCEPT !.render = r] = [f \in DOMAIN Blank |-> [m EXCEPT !.render = r][f]]
  BY <1>1
<1> QED
  BY <1>1, <1>2, <1>4, <1>5 DEF HasLists, IsRecord

LEMMA WithObjectsIs ==
  ASSUME NEW r, HasLists(r)
  PROVE  /\ HasLists(WithObjects(r)) /\ WithObjects(r).version = r.version
         /\ WithObjects(r).render = r.render /\ WithObjects(r).revision = r.revision
<1> DEFINE objects == <<Object(r.page, "page", r.pageBytes, "")>>
               \o (IF r.source = NoPath THEN <<>> ELSE <<Object(r.source, "source", 0, "")>>)
<1>1. IsList(objects)
  <2> SUFFICES ASSUME NEW a, NEW b, NEW c
               PROVE  IsList(<<a>> \o (IF c THEN <<>> ELSE <<b>>))
    OBVIOUS
  <2> QED
    BY EmptyIsList, OneIsList, ConcatIsList
<1>2. PICK a, b, c : c = objects /\ WithObjects(r) = [r EXCEPT !.kind = a, !.slug = b, !.objects = c]
  BY DEF WithObjects
<1> HIDE DEF objects
<1> QED
  BY <1>1, <1>2, BlankFields DEF Contents, HasLists, IsRecord

(* What a body and what was last read or written say about each other.      *)
MarkerInv ==
  /\ Listed(body)
  /\ stage = "none" => record = <<>> /\ written = <<>>
  /\ stage = "read" => record # <<>>
  /\ record # <<>> => \E kind : Accepted(body, kind) /\ record = <<Decoded(body)>>
  /\ written # <<>> => \E s : Declarable(s) /\ body = Encoded(s) /\ written = <<Normalized(s)>>

LEMMA WriteKeepsInv ==
  ASSUME NEW m, HasLists(m), m.version \in 4..Current, NEW failed, failed \notin {"none", "read"},
         MarkerInv, Write(m, failed)
  PROVE  MarkerInv'
<1>1. CASE /\ \E bytes \in {"small", "large"} : Encodable(m, bytes)
           /\ body' = Encoded(Stripped(m)) /\ written' = <<Normalized(Stripped(m))>>
           /\ record' = <<>> /\ stage' = "stored"
  <2>1. PICK s : s = Stripped(m)
    OBVIOUS
  <2>2. HasLists(s) /\ s.version = m.version /\ s.kind = m.kind
    BY <2>1, StrippedIs
  <2>3. Declarable(s)
    BY <1>1, <2>1, <2>2 DEF Encodable, Declarable, HasLists
  <2>4. Listed(Encoded(s))
    <3> DEFINE present == {f \in FieldsRead(s.version) : f \in Required(s.version) \/ s[f] # Blank[f]}
    <3>1. Encoded(s) = [f \in present |-> s[f]]
      BY DEF Encoded
    <3>2. IsList(s.objects) /\ IsPages(s.pages)
      BY <2>2 DEF HasLists
    <3> HIDE DEF present
    <3> QED BY <3>1, <3>2 DEF Listed
  <2> QED
    BY <1>1, <2>1, <2>3, <2>4 DEF MarkerInv
<1>2. CASE stage' = failed /\ UNCHANGED <<body, size, record, written>>
  BY <1>2 DEF MarkerInv
<1> QED
  BY <1>1, <1>2 DEF Write

(* What was read of a body is a record with lists.                          *)
LEMMA RecordIs ==
  ASSUME MarkerInv, stage = "read"
  PROVE  /\ \E kind : Accepted(body, kind)
         /\ record = <<Decoded(body)>> /\ record[1] = Decoded(body)
         /\ HasLists(Read(body)) /\ Read(body).version \in 1..Current
         /\ HasLists(record[1]) /\ record[1].version \in 1..Current
         /\ record[1].version < 4 => record[1].render = <<>> /\ record[1].revision = <<>>
<1>1. PICK kind : Accepted(body, kind) /\ record = <<Decoded(body)>>
  BY DEF MarkerInv
<1>2. "version" \in DOMAIN body /\ body.version \in 1..Current
  BY <1>1 DEF Accepted
<1>3. PICK r : r = Read(body)
  OBVIOUS
<1>4. /\ HasLists(r) /\ r.version = body.version
      /\ r.version < 4 => r.render = <<>> /\ r.revision = <<>>
  BY <1>2, <1>3, ReadIs DEF MarkerInv
<1>5. PICK m : m = record[1]
  OBVIOUS
<1>6. m = Normalized(r)
  BY <1>1, <1>3, <1>5 DEF Decoded
<1>7. {"version", "render", "revision", "objects", "pages"} \subseteq Contents
  BY DEF Contents
<1>8. CASE r.version >= 3
  <2>1. m = WithViews(r)
    BY <1>6, <1>8 DEF Normalized
  <2>2. IsRecord(m) /\ SameContents(m, r)
    BY <1>4, <2>1, WithViewsIs DEF HasLists
  <2>3. /\ m.version = r.version /\ m.objects = r.objects /\ m.pages = r.pages
        /\ m.render = r.render /\ m.revision = r.revision
    BY <1>7, <2>2 DEF SameContents
  <2>4. r.version \in Int /\ r.version <= Current /\ r.version >= 1
    BY <1>2, <1>4 DEF Current
  <2>5. HasLists(m)
    BY <1>4, <2>2, <2>3 DEF HasLists
  <2> QED
    BY <1>1, <1>2, <1>3, <1>4, <1>5, <2>3, <2>4, <2>5 DEF Current
<1>9. CASE ~(r.version >= 3)
  <2>1. m = WithObjects(r)
    BY <1>6, <1>9 DEF Normalized
  <2>2. m.version = r.version /\ m.render = r.render /\ m.revision = r.revision /\ HasLists(m)
    BY <1>4, <2>1, WithObjectsIs
  <2>3. r.version \in 1..2
    BY <1>2, <1>4, <1>9 DEF Current
  <2> QED
    BY <1>1, <1>2, <1>3, <1>4, <1>5, <2>2, <2>3
<1> QED
  BY <1>8, <1>9

LEMMA PromoteKeepsInv ==
  ASSUME MarkerInv, promoteStandaloneRevision
  PROVE  MarkerInv'
<1>1. PICK m : m = record[1]
  OBVIOUS
<1>2. stage = "read" /\ m.render # <<>>
  BY <1>1 DEF promoteStandaloneRevision
<1>3. HasLists(m) /\ m.version \in 4..Current
  BY <1>1, <1>2, RecordIs DEF Current
<1>4. PICK n : n = [m EXCEPT !.revision = <<[number |-> 1, previous |-> ""]>>, !.producer = "airplan",
                             !.objects = Redigested(@)]
  OBVIOUS
<1>5. PICK r, o : n = [m EXCEPT !.revision = r, !.producer = "airplan", !.objects = o] /\ o = Redigested(m.objects)
  <2>1. PICK r : r = <<[number |-> 1, previous |-> ""]>>
    OBVIOUS
  <2>2. n = [m EXCEPT !.revision = r, !.producer = "airplan", !.objects = Redigested(@)]
    BY <1>4, <2>1
  <2>3. "objects" \in DOMAIN m
    BY <1>3, BlankFields DEF HasLists, IsRecord, Contents
  <2> QED
    BY <2>2, <2>3
<1>6. HasLists(n) /\ n.version = m.version
  <2>1. DOMAIN m = DOMAIN Blank
    BY <1>3 DEF HasLists, IsRecord
  <2>2. IsList(o)
    BY <1>3, <1>5, RedigestedIsList DEF HasLists
  <2> QED
    BY <1>3, <1>5, <2>1, <2>2, BlankFields DEF HasLists, IsRecord, Contents
<1>7. \/ Write(n, "unpromoted")
      \/ stage' = "unpromoted" /\ UNCHANGED <<body, size, record, written>>
  BY <1>1, <1>4 DEF promoteStandaloneRevision
<1>8. CASE Write(n, "unpromoted")
  BY <1>3, <1>6, <1>8, WriteKeepsInv
<1>9. CASE stage' = "unpromoted" /\ UNCHANGED <<body, size, record, written>>
  BY <1>9 DEF MarkerInv
<1> QED
  BY <1>7, <1>8, <1>9

LEMMA UpgradeKeepsMarkerInv ==
  ASSUME MarkerInv, ExecuteDocumentUpgrade
  PROVE  MarkerInv'
<1>1. PICK m : m = record[1]
  OBVIOUS
<1>2. stage = "read"
  BY DEF ExecuteDocumentUpgrade
<1>3. \/ Write(UpgradedMarker(m, Rerendered(m)), "unupgraded")
      \/ stage' = "unupgraded" /\ UNCHANGED <<body, size, record, written>>
  BY <1>1 DEF ExecuteDocumentUpgrade
<1>4. HasLists(m)
  BY <1>1, <1>2, RecordIs
<1>5. CASE Write(UpgradedMarker(m, Rerendered(m)), "unupgraded")
  <2>1. /\ HasLists(UpgradedMarker(m, Rerendered(m)))
        /\ UpgradedMarker(m, Rerendered(m)).version \in 4..Current
    BY <1>4, UpgradedHasLists DEF Current
  <2> QED
    BY <1>5, <2>1, WriteKeepsInv
<1>6. CASE stage' = "unupgraded" /\ UNCHANGED <<body, size, record, written>>
  BY <1>6 DEF MarkerInv
<1> QED
  BY <1>3, <1>5, <1>6

LEMMA MarkerInvHolds == Spec => []MarkerInv
<1>1. Init => MarkerInv
  <2> SUFFICES ASSUME Init PROVE MarkerInv
    OBVIOUS
  <2>1. Listed(body)
    BY DEF Init, NoBody, Listed
  <2> QED
    BY <2>1 DEF Init, MarkerInv
<1>2. MarkerInv /\ [Next]_vars => MarkerInv'
  <2> SUFFICES ASSUME MarkerInv, [Next]_vars PROVE MarkerInv'
    OBVIOUS
  <2>1. ASSUME UploadDocument PROVE MarkerInv'
    <3>1. PICK input \in Inputs :
            Write(DocumentMarker(input), IF OwnPageInOtherCase(input) THEN "otherCase" ELSE "undeclarable")
      BY <2>1 DEF UploadDocument
    <3>2. HasLists(DocumentMarker(input)) /\ DocumentMarker(input).version \in 4..Current
      BY PagesAreLists, MarkerAssumption DEF Current
    <3>3. PICK failed \in {"otherCase", "undeclarable"} : Write(DocumentMarker(input), failed)
      BY <3>1
    <3> QED
      BY <3>2, <3>3, WriteKeepsInv
  <2>2. ASSUME UploadFiles PROVE MarkerInv'
    <3>1. PICK members \in Members :
            Write(CollectionMarker(members), IF PrefixInOtherCase(members) THEN "otherCase" ELSE "undeclarable")
      BY <2>2 DEF UploadFiles
    <3>2. HasLists(CollectionMarker(members)) /\ CollectionMarker(members).version \in 4..Current
      BY MembersAreLists, MarkerAssumption DEF Current
    <3>3. PICK failed \in {"otherCase", "undeclarable"} : Write(CollectionMarker(members), failed)
      BY <3>1
    <3> QED
      BY <3>2, <3>3, WriteKeepsInv
  <2>3. ASSUME Foreign PROVE MarkerInv'
    BY <2>3, MarkerAssumption DEF Foreign, MarkerInv, Listed
  <2>4. ASSUME DecodeUploadMarker PROVE MarkerInv'
    <3>1. PICK kind \in {"document", "collection"} :
            IF Accepted(body, kind)
            THEN record' = <<Decoded(body)>> /\ stage' = "read"
            ELSE record' = <<>> /\ stage' = "unreadable"
      BY <2>4 DEF DecodeUploadMarker
    <3>2. body' = body /\ written' = written
      BY <2>4 DEF DecodeUploadMarker
    <3>3. CASE Accepted(body, kind)
      BY <3>1, <3>2, <3>3 DEF MarkerInv
    <3>4. CASE ~Accepted(body, kind)
      BY <3>1, <3>2, <3>4 DEF MarkerInv
    <3> QED
      BY <3>3, <3>4
  <2>5. CASE UNCHANGED vars
    BY <2>5 DEF vars, MarkerInv
  <2> QED
    BY <2>1, <2>2, <2>3, <2>4, <2>5, PromoteKeepsInv, UpgradeKeepsMarkerInv DEF Next
<1> QED
  BY <1>1, <1>2, PTL DEF Spec

(* What this release has written is what a reader makes of it.              *)
LEMMA InvReadsBack ==
  ASSUME MarkerInv
  PROVE  RoundTrip
<1> SUFFICES ASSUME written # <<>>
             PROVE  Accepted(body, written[1].kind) /\ Decoded(body) = written[1]
  BY DEF RoundTrip
<1>1. PICK s : Declarable(s) /\ body = Encoded(s) /\ written = <<Normalized(s)>>
  BY DEF MarkerInv
<1>2. Accepted(body, s.kind) /\ Decoded(body) = Normalized(s)
  BY <1>1, EncodedIsAccepted
<1>3. Normalized(s).kind = s.kind
  <2>1. s.version >= 3 /\ IsRecord(s)
    BY <1>1 DEF Declarable, Current
  <2> QED
    BY <2>1, WithViewsIs DEF Normalized, SameContents, Contents
<1> QED
  BY <1>1, <1>2, <1>3

-----------------------------------------------------------------------------
(* The names a declaration holds.                                           *)
Controls == {MarkerName, CollectionMarkerName, ProtectedName}

LEMMA ThreeParts ==
  ASSUME NEW a, NEW b, NEW c, NEW path, path = <<<<a, b, c>>>>
  PROVE  /\ 1 \in DOMAIN path /\ path[1] = <<a, b, c>>
         /\ Len(path[1]) = 3 /\ Len(path[1]) > 1 /\ path[1][1] = a /\ path[1][2] = b
         /\ Folded(path)[1] = <<Lower[a], Lower[b], Lower[c]>>
<1>1. 1 \in DOMAIN path /\ path[1] = <<a, b, c>>
  OBVIOUS
<1>2. Folded(path)[1] = [j \in DOMAIN <<a, b, c>> |-> Lower[<<a, b, c>>[j]]]
  BY <1>1 DEF Folded
<1> QED
  BY <1>1, <1>2

LEMMA PathsAreNoControls ==
  ASSUME NEW path, ValidObjectPath(path)
  PROVE  path \notin Controls
<1>0. \A a : path = <<<<a, "airplan", "json">>>> =>
        1 \in DOMAIN path /\ Folded(path)[1] = <<Lower[a], Lower["airplan"], Lower["json"]>>
  <2> SUFFICES ASSUME NEW a, path = <<<<a, "airplan", "json">>>>
               PROVE  1 \in DOMAIN path /\ Folded(path)[1] = <<Lower[a], Lower["airplan"], Lower["json"]>>
    OBVIOUS
  <2> QED
    BY ThreeParts
<1>1. path # <<<<"", "airplan", "json">>>>
  <2> SUFFICES ASSUME path = <<<<"", "airplan", "json">>>> PROVE FALSE
    OBVIOUS
  <2>1. 1 \in DOMAIN path /\ Folded(path)[1] = <<Lower[""], Lower["airplan"], Lower["json"]>>
    BY <1>0
  <2>2. Lower[""] = "" /\ Lower["airplan"] = "airplan" /\ Lower["json"] = "json"
    <3> DEFINE fixed == {"", "html", "htm", "md", "txt", "diff", "json", "index", "plan", "airplan"}
    <3>1. "" \in fixed /\ "airplan" \in fixed /\ "json" \in fixed
      OBVIOUS
    <3>2. \A p \in fixed : Lower[p] = p
      BY PathAssumption
    <3> HIDE DEF fixed
    <3> QED BY <3>1, <3>2
  <2>3. Folded(path)[1] = <<"", "airplan", "json">>
    BY <2>1, <2>2
  <2>4. MarkerName[1] = <<"", "airplan", "json">>
    BY ThreeParts DEF MarkerName
  <2>5. Folded(path)[1] # MarkerName[1]
    BY <2>1 DEF ValidObjectPath
  <2> QED
    BY <2>3, <2>4, <2>5
<1>2. \A a \in AirplanDash : path # <<<<"", a, "json">>>>
  <2> SUFFICES ASSUME NEW a \in AirplanDash, path = <<<<"", a, "json">>>> PROVE FALSE
    OBVIOUS
  <2>1. 1 \in DOMAIN path /\ Len(path[1]) > 1 /\ path[1][1] = "" /\ path[1][2] = a
    BY ThreeParts
  <2>2. Lower[a] = a
    BY PathAssumption
  <2>3. Reserved(path[1])
    BY <2>1, <2>2 DEF Reserved
  <2> QED
    BY <2>1, <2>3 DEF ValidObjectPath
<1>3. "airplan-collection" \in AirplanDash /\ "airplan-protected" \in AirplanDash
  BY DEF AirplanDash
<1> QED
  BY <1>1, <1>2, <1>3 DEF Controls, MarkerName, CollectionMarkerName, ProtectedName

LEMMA CollectionNamesAreNoControls ==
  ASSUME NEW path, ValidCollectionName(path)
  PROVE  path \notin Controls
<1>1. "airplan-collection" \in AirplanDash /\ "airplan-protected" \in AirplanDash
  BY DEF AirplanDash
<1>2. \A a \in AirplanDash : path # <<<<"", a, "json">>>>
  <2> SUFFICES ASSUME NEW a \in AirplanDash, path = <<<<"", a, "json">>>> PROVE FALSE
    OBVIOUS
  <2>1. Len(path[1]) > 1 /\ path[1][1] = "" /\ path[1][2] = a
    BY ThreeParts
  <2> QED
    BY <2>1 DEF ValidCollectionName
<1> QED
  BY <1>1, <1>2 DEF Controls, MarkerName, CollectionMarkerName, ProtectedName, ValidCollectionName

LEMMA ObjectNamesAreNoControls ==
  ASSUME NEW path, ValidObjectName(path)
  PROVE  path \notin Controls
BY DEF ValidObjectName, Controls

LEMMA DiffIsNoControl == DiffName \notin Controls
<1>1. "airplan-changes" \notin {"airplan", "airplan-collection", "airplan-protected"}
  OBVIOUS
<1>2. DiffName[1][2] = "airplan-changes" /\ MarkerName[1][2] = "airplan"
  BY ThreeParts DEF DiffName, MarkerName
<1>3. CollectionMarkerName[1][2] = "airplan-collection" /\ ProtectedName[1][2] = "airplan-protected"
  BY ThreeParts DEF CollectionMarkerName, ProtectedName
<1> QED
  BY <1>1, <1>2, <1>3 DEF Controls

(* As many names as objects, when no two objects share one.                 *)
LEMMA NamesCounted ==
  ASSUME NEW objects, IsList(objects),
         \A i, j \in DOMAIN objects : i # j => objects[i].name # objects[j].name
  PROVE  Cardinality(NamesOf(objects)) = Len(objects)
<1>1. PICK n \in Nat : n = Len(objects) /\ DOMAIN objects = 1..n
  BY ListIs
<1>2. PICK names : names = NamesOf(objects)
  OBVIOUS
<1>3. names = {objects[i].name : i \in 1..n}
  BY <1>1, <1>2 DEF NamesOf
<1>4. PICK f : f = [i \in 1..n |-> objects[i].name]
  OBVIOUS
<1>5. f \in [1..n -> names] /\ \A x \in names : \E i \in 1..n : f[i] = x
  BY <1>3, <1>4
<1>6. \A i, j \in 1..n : f[i] = f[j] => i = j
  BY <1>1, <1>4
<1>7. f \in Bijection(1..n, names)
  BY <1>5, <1>6 DEF Bijection, Injection, Surjection, IsInjective
<1>8. IsFiniteSet(1..n) /\ Cardinality(1..n) = n
  BY FS_Interval
<1> QED
  BY <1>1, <1>2, <1>7, <1>8, FS_Bijection DEF ExistsBijection

LEMMA ObjectIsNoControl ==
  ASSUME NEW m, NEW o, ValidObject(m, o)
  PROVE  o.name \notin Controls
<1>1. ValidObjectName(o.name) \/ ValidCollectionName(o.name) \/ ValidObjectPath(o.name) \/ o.name = DiffName
  BY DEF ValidObject
<1> QED
  BY <1>1, ObjectNamesAreNoControls, CollectionNamesAreNoControls, PathsAreNoControls, DiffIsNoControl

LEMMA ModernNamesDistinct ==
  ASSUME NEW m, ValidModern(m), IsList(m.objects)
  PROVE  /\ NamesOf(m.objects) \cap Controls = {}
         /\ Cardinality(NamesOf(m.objects)) = Len(m.objects)
         /\ m.version >= 6 /\ m.kind = "document" => NoCollisions(NamesOf(m.objects))
<1>1. /\ \A i \in DOMAIN m.objects : ValidObject(m, m.objects[i])
      /\ \A i, j \in DOMAIN m.objects : i # j => m.objects[i].name # m.objects[j].name
  BY DEF ValidModern
<1>2. NamesOf(m.objects) \cap Controls = {}
  BY <1>1, ObjectIsNoControl DEF NamesOf
<1>3. Cardinality(NamesOf(m.objects)) = Len(m.objects)
  BY <1>1, NamesCounted
<1>4. ASSUME m.version >= 6, m.kind = "document" PROVE NoCollisions(NamesOf(m.objects))
  <2>1. m.kind # "collection"
    BY <1>4
  <2>2. ValidBundle(m)
    BY <1>4, <2>1 DEF ValidModern
  <2> QED
    BY <2>2 DEF ValidBundle
<1> QED
  BY <1>2, <1>3, <1>4

LEMMA ControlsAreLong ==
  ASSUME NEW path \in Controls
  PROVE  Len(path[1]) = 3
<1>1. \A a, b : path = <<<<a, b, "json">>>> => Len(path[1]) = 3
  BY ThreeParts
<1> QED
  BY <1>1 DEF Controls, MarkerName, CollectionMarkerName, ProtectedName

LEMMA LegacyNames ==
  ASSUME NEW m, ValidLegacy(m)
  PROVE  /\ Len(m.page[1]) = 2 /\ m.page[1][2] = "html"
         /\ m.source # NoPath => Len(m.source[1]) = 2 /\ m.source[1][2] # "html"
<1>1. Len(m.page[1]) = 2 /\ m.page[1][2] = "html" /\ SourceMatches(m, m.page[1][1], m.source)
  BY DEF ValidLegacy, IsPageName
<1>2. PICK slug : slug = m.page[1][1]
  OBVIOUS
<1>3. \A path : TextSource(path, slug) => Len(path[1]) = 2 /\ path[1][2] # "html"
  BY DEF TextSource
<1>4. m.source # NoPath => m.source = <<<<slug, "md">>>> \/ TextSource(m.source, slug)
  BY <1>1, <1>2 DEF SourceMatches
<1>5. m.source = <<<<slug, "md">>>> => Len(m.source[1]) = 2 /\ m.source[1][2] # "html"
  OBVIOUS
<1> QED
  BY <1>1, <1>3, <1>4, <1>5

LEMMA LegacyNamesDistinct ==
  ASSUME NEW r, ValidLegacy(r), IsRecord(r)
  PROVE  LET m == WithObjects(r) IN
         /\ NamesOf(m.objects) \cap Controls = {}
         /\ Cardinality(NamesOf(m.objects)) = Len(m.objects)
<1>1. PICK a, b : /\ a = Object(r.page, "page", r.pageBytes, "")
                  /\ b = Object(r.source, "source", 0, "")
  OBVIOUS
<1>2. a.name = r.page /\ b.name = r.source
  BY <1>1 DEF Object
<1>3. PICK objects : objects = <<a>> \o (IF r.source = NoPath THEN <<>> ELSE <<b>>)
  OBVIOUS
<1>4. WithObjects(r).objects = objects
  <2>1. PICK k, s : WithObjects(r) = [r EXCEPT !.kind = k, !.slug = s, !.objects = objects]
    BY <1>1, <1>3 DEF WithObjects
  <2> QED
    BY <2>1, BlankFields DEF IsRecord, Contents
<1>5. r.page \notin Controls /\ (r.source # NoPath => r.source \notin Controls /\ r.source # r.page)
  BY LegacyNames, ControlsAreLong
<1>6. IsList(objects) /\ DOMAIN objects = 1..(IF r.source = NoPath THEN 1 ELSE 2)
      /\ objects[1] = a /\ (r.source # NoPath => objects[2] = b)
  BY <1>3, EmptyIsList, OneIsList, ConcatIsList
<1>7. \A i, j \in DOMAIN objects : i # j => objects[i].name # objects[j].name
  BY <1>2, <1>5, <1>6
<1>8. NamesOf(objects) \cap Controls = {}
  BY <1>2, <1>5, <1>6 DEF NamesOf
<1> QED
  BY <1>4, <1>6, <1>7, <1>8, NamesCounted

LEMMA InvDistinct ==
  ASSUME MarkerInv
  PROVE  OwnedDistinct
<1> SUFFICES ASSUME record # <<>>, NEW m, m = record[1]
             PROVE  /\ NamesOf(m.objects) \cap Controls = {}
                    /\ Cardinality(NamesOf(m.objects)) = Len(m.objects)
                    /\ m.version >= 6 /\ m.kind = "document" => NoCollisions(NamesOf(m.objects))
  BY DEF OwnedDistinct, Controls
<1>1. PICK kind : Accepted(body, kind) /\ record = <<Decoded(body)>>
  BY DEF MarkerInv
<1>2. PICK r : r = Read(body)
  OBVIOUS
<1>3. "version" \in DOMAIN body /\ body.version \in 1..Current /\ Valid(r, kind)
  BY <1>1, <1>2 DEF Accepted
<1>4. HasLists(r)
  BY <1>2, <1>3, ReadIs DEF MarkerInv
<1>5. m = Normalized(r)
  BY <1>1, <1>2 DEF Decoded
<1>6. CASE r.version >= 3
  <2>1. ValidModern(r)
    BY <1>3, <1>6 DEF Valid
  <2>2. m.version = r.version /\ m.kind = r.kind /\ m.objects = r.objects
    BY <1>4, <1>5, <1>6, WithViewsIs DEF Normalized, HasLists, SameContents, Contents
  <2> QED
    BY <1>4, <2>1, <2>2, ModernNamesDistinct DEF HasLists
<1>7. CASE ~(r.version >= 3)
  <2>1. ValidLegacy(r)
    BY <1>3, <1>7 DEF Valid
  <2>2. m = WithObjects(r)
    BY <1>5, <1>7 DEF Normalized
  <2>3. m.version = r.version
    BY <1>4, <2>2, WithObjectsIs
  <2>4. r.version \in Int
    BY <1>2, <1>3, ReadIs DEF MarkerInv, Current
  <2>5. ~(m.version >= 6)
    BY <1>7, <2>3, <2>4
  <2> QED
    BY <1>4, <2>1, <2>2, <2>5, LegacyNamesDistinct DEF HasLists
<1> QED
  BY <1>6, <1>7

(* What this release declares it reads back as it was meant, in every       *)
(* version a rewrite may keep, and no marker that any reader accepts makes  *)
(* a deletion remove one name twice or a control object: the property       *)
(* DeclaredNames, of encodeMarker and DecodeUploadMarker.                   *)
THEOREM DeclarationsHold == Spec => []DeclaredNames
<1>1. MarkerInv => DeclaredNames
  BY InvReadsBack, InvDistinct DEF DeclaredNames
<1> QED
  BY <1>1, MarkerInvHolds, PTL

-----------------------------------------------------------------------------
(* The names of a role.                                                     *)
LEMMA InOrderMeets ==
  ASSUME NEW S, IsFiniteSet(S), S \subseteq Int, NEW x \in S
  PROVE  \E k \in 1..Cardinality(S) : InOrder(S)[k] = x
<1>1. PICK n : n = Cardinality(S)
  OBVIOUS
<1>2. PICK g : g = InOrder(S)
  OBVIOUS
<1>3. /\ n \in Nat /\ g \in [1..n -> S]
      /\ \A i, j \in 1..n : g[i] = g[j] => i = j
  BY <1>1, <1>2, InOrderIs
<1>4. g \in Injection(1..n, S)
  BY <1>3 DEF Injection, IsInjective
<1>5. Cardinality(1..n) = n
  BY <1>3, FS_Interval
<1>6. g \in Surjection(1..n, S)
  BY <1>1, <1>4, <1>5, FS_Injection
<1> QED
  BY <1>1, <1>2, <1>6 DEF Surjection

(* A selection holds what was selected, and nothing else.                   *)
LEMMA SelectionHolds ==
  ASSUME NEW s, IsList(s), NEW I, I \subseteq DOMAIN s
  PROVE  /\ IsFiniteSet(I) /\ IsList(Picked(s, I)) /\ Len(Picked(s, I)) = Cardinality(I)
         /\ \A k \in DOMAIN Picked(s, I) : \E i \in I : Picked(s, I)[k] = s[i]
         /\ \A i \in I : \E k \in DOMAIN Picked(s, I) : Picked(s, I)[k] = s[i]
<1>1. IsFiniteSet(I) /\ I \subseteq Int
  BY IndicesFinite
<1>2. PICK p : p = Picked(s, I)
  OBVIOUS
<1>3. PICK n \in Nat : n = Cardinality(I)
  BY <1>1, FS_CardinalityType
<1>4. IsList(p) /\ Len(p) = n /\ DOMAIN p = 1..n
  BY <1>1, <1>2, <1>3, PickedIsList, ListIs
<1>5. \A k \in 1..n : \E i \in I : p[k] = s[i]
  BY <1>1, <1>2, <1>4, PickedHolds
<1>6. \A k \in 1..n : p[k] = s[InOrder(I)[k]]
  BY <1>2, <1>3 DEF Picked
<1>7. \A i \in I : \E k \in 1..n : p[k] = s[i]
  BY <1>1, <1>3, <1>6, InOrderMeets
<1>8. /\ IsFiniteSet(I) /\ IsList(p) /\ Len(p) = Cardinality(I)
      /\ \A k \in DOMAIN p : \E i \in I : p[k] = s[i]
      /\ \A i \in I : \E k \in DOMAIN p : p[k] = s[i]
  BY <1>1, <1>3, <1>4, <1>5, <1>7
<1> QED
  BY <1>2, <1>8

LEMMA OfRoleIs ==
  ASSUME NEW s, IsList(s), NEW role, NEW p, p = OfRole(s, role)
  PROVE  /\ \A k \in DOMAIN p : \E i \in DOMAIN s : s[i].role = role /\ p[k] = s[i]
         /\ \A i \in DOMAIN s : s[i].role = role => \E k \in DOMAIN p : p[k] = s[i]
<1> DEFINE I == {i \in DOMAIN s : s[i].role = role}
<1>1. p = Picked(s, I) /\ I \subseteq DOMAIN s
  BY DEF OfRole
<1>2. \A i : i \in I <=> i \in DOMAIN s /\ s[i].role = role
  OBVIOUS
<1> HIDE DEF I
<1>3. /\ \A k \in DOMAIN p : \E i \in I : p[k] = s[i]
      /\ \A i \in I : \E k \in DOMAIN p : p[k] = s[i]
  <2>1. /\ \A k \in DOMAIN Picked(s, I) : \E i \in I : Picked(s, I)[k] = s[i]
        /\ \A i \in I : \E k \in DOMAIN Picked(s, I) : Picked(s, I)[k] = s[i]
    BY <1>1, SelectionHolds
  <2> QED
    BY <1>1, <2>1
<1> QED
  BY <1>2, <1>3

LEMMA UnlikeIs ==
  ASSUME NEW s, IsList(s), NEW role, NEW p, p = Unlike(s, role)
  PROVE  /\ \A k \in DOMAIN p : \E i \in DOMAIN s : s[i].role # role /\ p[k] = s[i]
         /\ \A i \in DOMAIN s : s[i].role # role => \E k \in DOMAIN p : p[k] = s[i]
<1> DEFINE I == {i \in DOMAIN s : s[i].role # role}
<1>1. p = Picked(s, I) /\ I \subseteq DOMAIN s
  BY DEF Unlike
<1>2. \A i : i \in I <=> i \in DOMAIN s /\ s[i].role # role
  OBVIOUS
<1> HIDE DEF I
<1>3. /\ \A k \in DOMAIN p : \E i \in I : p[k] = s[i]
      /\ \A i \in I : \E k \in DOMAIN p : p[k] = s[i]
  <2>1. /\ \A k \in DOMAIN Picked(s, I) : \E i \in I : Picked(s, I)[k] = s[i]
        /\ \A i \in I : \E k \in DOMAIN Picked(s, I) : Picked(s, I)[k] = s[i]
    BY <1>1, SelectionHolds
  <2> QED
    BY <1>1, <2>1
<1> QED
  BY <1>2, <1>3

(* The names of a list that have a role.                                    *)
NamesWith(objects, role) == {objects[i].name : i \in {j \in DOMAIN objects : objects[j].role = role}}

LEMMA NamedWith ==
  ASSUME NEW objects, NEW role, NEW x
  PROVE  x \in NamesWith(objects, role) <=>
           \E i \in DOMAIN objects : objects[i].role = role /\ objects[i].name = x
BY DEF NamesWith

LEMMA NamesOfRole ==
  ASSUME NEW s, IsList(s), NEW role, NEW other
  PROVE  NamesWith(OfRole(s, role), other) = IF other = role THEN NamesWith(s, role) ELSE {}
<1>1. PICK p : p = OfRole(s, role)
  OBVIOUS
<1>2. /\ \A k \in DOMAIN p : \E i \in DOMAIN s : s[i].role = role /\ p[k] = s[i]
      /\ \A i \in DOMAIN s : s[i].role = role => \E k \in DOMAIN p : p[k] = s[i]
  BY <1>1, OfRoleIs
<1>3. CASE other = role
  <2>1. \A x : x \in NamesWith(p, role) <=> x \in NamesWith(s, role)
    BY <1>2, NamedWith
  <2> QED
    BY <1>1, <1>3, <2>1
<1>4. CASE other # role
  <2>1. \A x : x \notin NamesWith(p, other)
    BY <1>2, <1>4, NamedWith
  <2> QED
    BY <1>1, <1>4, <2>1
<1> QED
  BY <1>3, <1>4

LEMMA NamesUnlike ==
  ASSUME NEW s, IsList(s), NEW role, NEW other
  PROVE  NamesWith(Unlike(s, role), other) = IF other = role THEN {} ELSE NamesWith(s, other)
<1>1. PICK p : p = Unlike(s, role)
  OBVIOUS
<1>2. /\ \A k \in DOMAIN p : \E i \in DOMAIN s : s[i].role # role /\ p[k] = s[i]
      /\ \A i \in DOMAIN s : s[i].role # role => \E k \in DOMAIN p : p[k] = s[i]
  BY <1>1, UnlikeIs
<1>3. CASE other # role
  <2>1. \A x : x \in NamesWith(p, other) <=> x \in NamesWith(s, other)
    BY <1>2, <1>3, NamedWith
  <2> QED
    BY <1>1, <1>3, <2>1
<1>4. CASE other = role
  <2>1. \A x : x \notin NamesWith(p, role)
    BY <1>2, NamedWith
  <2> QED
    BY <1>1, <1>4, <2>1
<1> QED
  BY <1>3, <1>4

(* As many objects of a role as there are names known to have it.           *)
LEMMA NamesAll ==
  ASSUME NEW s, IsList(s), NEW role, NEW n \in Nat, NEW f,
         \A i \in 1..n : f[i] \in NamesWith(s, role),
         \A i, j \in 1..n : i # j => f[i] # f[j],
         Len(OfRole(s, role)) = n
  PROVE  NamesWith(s, role) = {f[i] : i \in 1..n}
<1> DEFINE I == {i \in DOMAIN s : s[i].role = role}
<1>1. \A o : o \in I <=> o \in DOMAIN s /\ s[o].role = role
  OBVIOUS
<1>2. IsFiniteSet(I) /\ Cardinality(I) = n
  <2>1. OfRole(s, role) = Picked(s, I) /\ I \subseteq DOMAIN s
    BY DEF OfRole
  <2> HIDE DEF I
  <2> QED
    BY <2>1, SelectionHolds
<1> HIDE DEF I
<1>3. \A i \in 1..n : \E o \in I : s[o].name = f[i]
  BY <1>1, NamedWith
<1>4. PICK g : g = [i \in 1..n |-> CHOOSE o \in I : s[o].name = f[i]]
  OBVIOUS
<1>5. \A i \in 1..n : g[i] \in I /\ s[g[i]].name = f[i]
  BY <1>3, <1>4
<1>6. g \in Injection(1..n, I)
  <2>1. g \in [1..n -> I]
    BY <1>4, <1>5
  <2>2. \A i, j \in 1..n : g[i] = g[j] => i = j
    BY <1>5
  <2> QED
    BY <2>1, <2>2 DEF Injection, IsInjective
<1>7. Cardinality(1..n) = n
  BY FS_Interval
<1>8. g \in Surjection(1..n, I)
  BY <1>2, <1>6, <1>7, FS_Injection
<1>9. \A o \in I : \E i \in 1..n : g[i] = o
  BY <1>8 DEF Surjection
<1>10. ASSUME NEW x \in NamesWith(s, role) PROVE x \in {f[i] : i \in 1..n}
  <2>1. PICK o \in I : s[o].name = x
    BY <1>1, <1>10, NamedWith
  <2>2. PICK i \in 1..n : g[i] = o
    BY <1>9
  <2> QED
    BY <1>5, <2>1, <2>2
<1> QED
  BY <1>10

LEMMA FewNames ==
  ASSUME NEW s, IsList(s), NEW role, NEW p, p = OfRole(s, role)
  PROVE  /\ p = <<>> => Len(p) = 0
         /\ Len(p) = 0 => NamesWith(s, role) = {}
         /\ Len(p) = 1 => NamesWith(s, role) = {p[1].name}
<1>1. DOMAIN p = 1..Len(p)
  BY OfRoleIsList, ListIs
<1>2. /\ \A k \in DOMAIN p : \E i \in DOMAIN s : s[i].role = role /\ p[k] = s[i]
      /\ \A i \in DOMAIN s : s[i].role = role => \E k \in DOMAIN p : p[k] = s[i]
  BY OfRoleIs
<1>3. ASSUME Len(p) = 0 PROVE NamesWith(s, role) = {}
  BY <1>1, <1>2, <1>3, NamedWith
<1>4. ASSUME Len(p) = 1 PROVE NamesWith(s, role) = {p[1].name}
  <2>1. \A k : k \in DOMAIN p <=> k = 1
    BY <1>1, <1>4
  <2>2. \A x : x \in NamesWith(s, role) <=> x = p[1].name
    BY <1>2, <2>1, NamedWith
  <2> QED
    BY <2>2
<1> QED
  BY <1>3, <1>4

LEMMA NamesHeld ==
  ASSUME NEW s, NEW role, NEW x
  PROVE  x \in NamesWith(s, role) <=> \E o \in Range(s) : o.role = role /\ o.name = x
BY NamedWith DEF Range

LEMMA ConcatNames ==
  ASSUME NEW s, NEW t, IsList(s), IsList(t), NEW role
  PROVE  NamesWith(s \o t, role) = NamesWith(s, role) \cup NamesWith(t, role)
<1>1. PICK u : u = s \o t
  OBVIOUS
<1>2. Range(u) = Range(s) \cup Range(t)
  BY <1>1, ConcatHolds
<1>3. \A x : x \in NamesWith(u, role) <=> x \in NamesWith(s, role) \/ x \in NamesWith(t, role)
  BY <1>2, NamesHeld
<1> QED
  BY <1>1, <1>3

LEMMA ObjectFields ==
  ASSUME NEW n, NEW r, NEW b, NEW d, NEW o, o = Object(n, r, b, d)
  PROVE  o.name = n /\ o.role = r /\ {"name", "role"} \subseteq DOMAIN o
BY DEF Object

LEMMA OneHeld ==
  ASSUME NEW a
  PROVE  Range(<<a>>) = {a} /\ Range(<<>>) = {}
<1>1. Range(<<a>>) = {a}
  BY DEF Range
<1>2. Range(<<>>) = {}
  BY DEF Range
<1> QED
  BY <1>1, <1>2

(* What an upload declares: an object for each page, for each source that   *)
(* is kept, and for each asset.                                             *)
LEMMA DocumentHolds ==
  ASSUME NEW input, IsList(input.pages), IsList(input.assets), NEW o
  PROVE  o \in Range(DocumentMarker(input).objects) <=>
           \/ \E i \in DOMAIN input.pages :
                 \/ o = Object(PageName(input, i), "page", 1, "digest")
                 \/ /\ SourceName(input, i) # NoPath
                    /\ o = Object(SourceName(input, i), "source", 1, "digest")
           \/ \E i \in DOMAIN input.assets : o = Object(input.assets[i], "asset", 0, "digest")
<1> DEFINE page(i) == Object(PageName(input, i), "page", 1, "digest")
           source(i) == Object(SourceName(input, i), "source", 1, "digest")
           objects(i) == <<page(i)>> \o (IF SourceName(input, i) = NoPath THEN <<>> ELSE <<source(i)>>)
           each == [i \in DOMAIN input.pages |-> objects(i)]
           assets == [i \in DOMAIN input.assets |-> Object(input.assets[i], "asset", 0, "digest")]
<1>1. \A i : IsList(objects(i)) /\ Range(objects(i)) =
                {page(i)} \cup (IF SourceName(input, i) = NoPath THEN {} ELSE {source(i)})
  <2> SUFFICES ASSUME NEW a, NEW b, NEW c
               PROVE  /\ IsList(<<a>> \o (IF c THEN <<>> ELSE <<b>>))
                      /\ Range(<<a>> \o (IF c THEN <<>> ELSE <<b>>)) =
                           {a} \cup (IF c THEN {} ELSE {b})
    OBVIOUS
  <2>1. PICK t : t = IF c THEN <<>> ELSE <<b>>
    OBVIOUS
  <2>2. IsList(<<a>>) /\ IsList(t)
    BY <2>1, OneIsList, EmptyIsList
  <2>3. Range(t) = IF c THEN {} ELSE {b}
    BY <2>1, OneHeld
  <2>4. IsList(<<a>> \o t) /\ Range(<<a>> \o t) = Range(<<a>>) \cup Range(t)
    BY <2>2, ConcatIsList, ConcatHolds
  <2> QED
    BY <2>1, <2>3, <2>4, OneHeld
<1>2. IsList(each) /\ \A i \in DOMAIN each : IsList(each[i])
  <2> HIDE DEF objects
  <2>1. each = [i \in DOMAIN input.pages |-> each[i]]
    OBVIOUS
  <2> QED BY <1>1, <2>1, MappedIsList
<1>3. IsList(assets)
  <2>1. assets = [i \in DOMAIN input.assets |-> assets[i]]
    OBVIOUS
  <2> HIDE DEF assets
  <2> QED BY <2>1, MappedIsList
<1>4. \A x : x \in Range(assets) <=>
               \E i \in DOMAIN input.assets : x = Object(input.assets[i], "asset", 0, "digest")
  BY DEF Range
<1>5. DOMAIN each = DOMAIN input.pages /\ \A i \in DOMAIN each : each[i] = objects(i)
  <2> HIDE DEF objects
  <2> QED OBVIOUS
<1>6. PICK all : all = FlattenSeq(each) \o assets
  OBVIOUS
<1>7. DocumentMarker(input).objects = all
  <2> DEFINE slug == SlugOf(input)
             format == input.pages[1].format
             entry == PageName(input, 1)
             render == IF input.pages[1].format # "html" THEN <<Recipe("builtin")>> ELSE <<>>
             pages == IF ~(input.pages[1].format # "html") THEN <<>>
                      ELSE [i \in DOMAIN input.pages |->
                                Descriptor(input.pages[i].path, PageName(input, i), SourceName(input, i),
                                           input.pages[i].format)]
  <2>1. DocumentMarker(input) =
          [Blank EXCEPT !.slug = slug, !.format = format, !.producer = "airplan",
                        !.title = "Title", !.entrypoint = entry,
                        !.render = render, !.objects = all, !.pages = pages]
    BY <1>6 DEF DocumentMarker
  <2> HIDE DEF slug, format, entry, render, pages
  <2> QED
    BY <2>1, BlankFields DEF Contents
<1>8. Range(all) = Range(FlattenSeq(each)) \cup Range(assets)
  <2> HIDE DEF each, assets
  <2>1. IsList(FlattenSeq(each))
    BY <1>2, FlattenIsList
  <2> QED
    BY <1>3, <1>6, <2>1, ConcatHolds
<1>9. \A x : x \in Range(FlattenSeq(each)) <=> \E i \in DOMAIN each : x \in Range(each[i])
  <2> HIDE DEF each
  <2> QED BY <1>2, FlattenIsList
<1>10. \A i \in DOMAIN input.pages : o \in Range(each[i]) <=>
          \/ o = page(i)
          \/ SourceName(input, i) # NoPath /\ o = source(i)
  <2> HIDE DEF each, page, source, objects
  <2> QED BY <1>1, <1>5
<1>11. o \in Range(all) <=> \/ \E i \in DOMAIN input.pages : o \in Range(each[i])
                            \/ o \in Range(assets)
  <2> HIDE DEF each, assets
  <2> QED BY <1>5, <1>8, <1>9
<1> HIDE DEF each, assets, objects
<1> QED
  BY <1>4, <1>7, <1>10, <1>11

DocumentPages(input) ==
  IF ~(input.pages[1].format # "html") THEN <<>>
  ELSE [i \in DOMAIN input.pages |->
            Descriptor(input.pages[i].path, PageName(input, i), SourceName(input, i), input.pages[i].format)]

(* A later revision declares the diff from the one before.                  *)
Later(m) == m.revision # <<>> /\ m.revision[1].number > 1
DiffsOf(m) == IF Later(m) THEN <<Object(DiffName, "diff", 1, "digest")>> ELSE <<>>

LEMMA DocumentIs ==
  ASSUME NEW input
  PROVE  /\ DocumentMarker(input).kind = "document"
         /\ DocumentMarker(input).entrypoint = PageName(input, 1)
         /\ DocumentMarker(input).pages = DocumentPages(input)
<1> DEFINE objects(i) ==
             <<Object(PageName(input, i), "page", 1, "digest")>>
             \o (IF SourceName(input, i) = NoPath THEN <<>>
                 ELSE <<Object(SourceName(input, i), "source", 1, "digest")>>)
           each == [i \in DOMAIN input.pages |-> objects(i)]
           assets == [i \in DOMAIN input.assets |-> Object(input.assets[i], "asset", 0, "digest")]
           all == FlattenSeq(each) \o assets
           slug == SlugOf(input)
           format == input.pages[1].format
           entry == PageName(input, 1)
           render == IF input.pages[1].format # "html" THEN <<Recipe("builtin")>> ELSE <<>>
           pages == DocumentPages(input)
<1>1. DocumentMarker(input) =
        [Blank EXCEPT !.slug = slug, !.format = format, !.producer = "airplan",
                      !.title = "Title", !.entrypoint = entry,
                      !.render = render, !.objects = all, !.pages = pages]
  BY DEF DocumentMarker, DocumentPages
<1> HIDE DEF all, slug, format, entry, render, pages
<1>2. Blank.kind = "document"
  BY DEF Blank
<1>3. /\ DocumentMarker(input).kind = "document"
      /\ DocumentMarker(input).entrypoint = entry
      /\ DocumentMarker(input).pages = pages
  BY <1>1, <1>2, BlankFields DEF Contents
<1> QED
  BY <1>3 DEF entry, pages

LEMMA UpgradedIs ==
  ASSUME NEW m, HasLists(m), NEW input, input = Rerendered(m), NEW u, u = UpgradedMarker(m, input)
  PROVE  /\ IsRecord(u) /\ IsPages(u.pages) /\ u.version = 7 /\ u.kind = "document"
         /\ u.entrypoint = PageName(input, 1) /\ u.pages = DocumentPages(input)
         /\ u.objects = Redigested(Unlike(DocumentMarker(input).objects, "asset"))
                          \o OfRole(m.objects, "asset") \o DiffsOf(m)
<1>1. PICK n : n = DocumentMarker(input)
  OBVIOUS
<1>2. HasLists(n) /\ n.version = 7
  BY <1>1, PagesAreLists, RerenderedHasLists DEF Current
<1>3. n.kind = "document" /\ n.entrypoint = PageName(input, 1) /\ n.pages = DocumentPages(input)
  BY <1>1, DocumentIs
<1>4. PICK o : o = Redigested(Unlike(n.objects, "asset")) \o OfRole(m.objects, "asset") \o DiffsOf(m)
  OBVIOUS
<1>5. DOMAIN n = DOMAIN Blank
  BY <1>2 DEF HasLists, IsRecord
<1>6. u = [n EXCEPT !.title = m.title, !.repo = m.repo, !.revision = m.revision, !.objects = o]
  <2> DEFINE assets == OfRole(m.objects, "asset")
             diffs == DiffsOf(m)
  <2>1. "objects" \in DOMAIN n
    BY <1>5, BlankFields DEF Contents
  <2>2. u = [n EXCEPT !.title = m.title, !.repo = m.repo, !.revision = m.revision,
                      !.objects = Redigested(Unlike(@, "asset")) \o assets \o diffs]
    BY <1>1 DEF UpgradedMarker, DiffsOf, Later
  <2> HIDE DEF assets, diffs
  <2>3. o = Redigested(Unlike(n.objects, "asset")) \o assets \o diffs
    BY <1>4 DEF assets, diffs
  <2> QED
    BY <2>1, <2>2, <2>3
<1>7. /\ u.version = n.version /\ u.kind = n.kind /\ u.entrypoint = n.entrypoint /\ u.pages = n.pages
      /\ u.objects = o
  BY <1>5, <1>6, BlankFields DEF Contents
<1>8. IsRecord(u)
  BY <1>2, UpgradedHasLists DEF HasLists
<1> QED
  BY <1>1, <1>2, <1>3, <1>4, <1>7, <1>8 DEF HasLists

(* New digests leave names and roles alone.                                 *)
LEMMA RedigestedNames ==
  ASSUME NEW s, NEW role, \A o \in Range(s) : {"name", "role"} \subseteq DOMAIN o
  PROVE  NamesWith(Redigested(s), role) = NamesWith(s, role)
<1>1. PICK t : t = Redigested(s)
  OBVIOUS
<1>2. /\ DOMAIN t = DOMAIN s
      /\ \A i \in DOMAIN s : t[i] = IF s[i].role = "page" THEN [s[i] EXCEPT !.digest = "new"] ELSE s[i]
  BY <1>1 DEF Redigested
<1>3. ASSUME NEW i \in DOMAIN s PROVE t[i].name = s[i].name /\ t[i].role = s[i].role
  <2>1. PICK o : o = s[i]
    OBVIOUS
  <2>2. {"name", "role"} \subseteq DOMAIN o
    BY <2>1 DEF Range
  <2>3. t[i] = o \/ t[i] = [o EXCEPT !.digest = "new"]
    BY <1>2, <2>1
  <2> QED
    BY <2>1, <2>2, <2>3
<1>4. \A x : x \in NamesWith(t, role) <=> x \in NamesWith(s, role)
  BY <1>2, <1>3, NamedWith
<1> QED
  BY <1>1, <1>4

(* What a rewrite declares of each role.                                    *)
Declares(role, pages, sources, assets, later) ==
  CASE role = "page" -> pages
    [] role = "source" -> sources
    [] role = "asset" -> assets
    [] role = "diff" -> IF later THEN {DiffName} ELSE {}
    [] OTHER -> {}

PageNames(input) == {PageName(input, i) : i \in DOMAIN input.pages}
SourceNames(input) == {SourceName(input, i) :
                         i \in {j \in DOMAIN input.pages : SourceName(input, j) # NoPath}}

LEMMA DocumentNames ==
  ASSUME NEW input, IsList(input.pages), IsList(input.assets), NEW role, role # "asset"
  PROVE  NamesWith(DocumentMarker(input).objects, role) =
           Declares(role, PageNames(input), SourceNames(input), {}, FALSE)
<1>1. PICK objects : objects = DocumentMarker(input).objects
  OBVIOUS
<1>2. \A o : o \in Range(objects) <=>
           \/ \E i \in DOMAIN input.pages :
                 \/ o = Object(PageName(input, i), "page", 1, "digest")
                 \/ /\ SourceName(input, i) # NoPath
                    /\ o = Object(SourceName(input, i), "source", 1, "digest")
           \/ \E i \in DOMAIN input.assets : o = Object(input.assets[i], "asset", 0, "digest")
  BY <1>1, DocumentHolds
<1>3. ASSUME role = "page" PROVE NamesWith(objects, role) = PageNames(input)
  BY <1>2, <1>3, NamesHeld, ObjectFields DEF PageNames
<1>4. ASSUME role = "source" PROVE NamesWith(objects, role) = SourceNames(input)
  BY <1>2, <1>4, NamesHeld, ObjectFields DEF SourceNames
<1>5. ASSUME role \notin {"page", "source", "asset"} PROVE NamesWith(objects, role) = {}
  BY <1>2, <1>5, NamesHeld, ObjectFields
<1> QED
  BY <1>1, <1>3, <1>4, <1>5 DEF Declares

(* The names an upgrade declares.                                           *)
LEMMA UpgradedNames ==
  ASSUME NEW m, HasLists(m), NEW input, input = Rerendered(m), NEW u, u = UpgradedMarker(m, input), NEW role
  PROVE  NamesWith(u.objects, role) =
           Declares(role, PageNames(input), SourceNames(input), NamesWith(m.objects, "asset"), Later(m))
<1>1. IsList(input.pages) /\ IsList(input.assets)
  BY RerenderedHasLists
<1>2. PICK declared : declared = DocumentMarker(input).objects
  OBVIOUS
<1>3. IsList(declared)
  BY <1>1, <1>2, PagesAreLists DEF HasLists
<1>4. \A o \in Range(declared) : {"name", "role"} \subseteq DOMAIN o
  <2>1. \A o \in Range(declared) : \E n, r, b, d : o = Object(n, r, b, d)
    <3> SUFFICES ASSUME NEW o \in Range(declared) PROVE \E n, r, b, d : o = Object(n, r, b, d)
      OBVIOUS
    <3>1. \/ \E i \in DOMAIN input.pages :
                \/ o = Object(PageName(input, i), "page", 1, "digest")
                \/ o = Object(SourceName(input, i), "source", 1, "digest")
          \/ \E i \in DOMAIN input.assets : o = Object(input.assets[i], "asset", 0, "digest")
      BY <1>1, <1>2, DocumentHolds
    <3> QED
      BY <3>1, Zenon
  <2> QED
    BY <2>1, ObjectFields
<1>5. PICK rendered : rendered = Unlike(declared, "asset")
  OBVIOUS
<1>6. IsList(rendered) /\ NamesWith(rendered, role) = IF role = "asset" THEN {} ELSE NamesWith(declared, role)
  BY <1>3, <1>5, OfRoleIsList, NamesUnlike
<1>7. \A o \in Range(rendered) : {"name", "role"} \subseteq DOMAIN o
  <2>1. \A k \in DOMAIN rendered : \E i \in DOMAIN declared : rendered[k] = declared[i]
    BY <1>3, <1>5, UnlikeIs
  <2> QED
    BY <1>4, <2>1 DEF Range
<1>8. PICK kept : kept = Redigested(rendered)
  OBVIOUS
<1>9. IsList(kept) /\ NamesWith(kept, role) = NamesWith(rendered, role)
  BY <1>6, <1>7, <1>8, RedigestedIsList, RedigestedNames
<1>10. PICK assets : assets = OfRole(m.objects, "asset")
  OBVIOUS
<1>11. /\ IsList(assets)
       /\ NamesWith(assets, role) = IF role = "asset" THEN NamesWith(m.objects, "asset") ELSE {}
  BY <1>10, OfRoleIsList, NamesOfRole DEF HasLists
<1>12. PICK diffs : diffs = DiffsOf(m)
  OBVIOUS
<1>13. /\ IsList(diffs)
       /\ NamesWith(diffs, role) = IF role = "diff" /\ Later(m) THEN {DiffName} ELSE {}
  <2>1. PICK o : o = Object(DiffName, "diff", 1, "digest")
    OBVIOUS
  <2>2. diffs = IF Later(m) THEN <<o>> ELSE <<>>
    BY <1>12, <2>1 DEF DiffsOf
  <2>3. IsList(diffs) /\ Range(diffs) = IF Later(m) THEN {o} ELSE {}
    BY <2>2, OneIsList, EmptyIsList, OneHeld
  <2>4. \A x : x \in NamesWith(diffs, role) <=> role = "diff" /\ Later(m) /\ x = DiffName
    BY <2>1, <2>3, NamesHeld, ObjectFields
  <2> QED
    BY <2>3, <2>4
<1>14. u.objects = kept \o assets \o diffs
  BY <1>2, <1>5, <1>8, <1>10, <1>12, UpgradedIs
<1>15. NamesWith(u.objects, role) = NamesWith(kept, role) \cup NamesWith(assets, role) \cup NamesWith(diffs, role)
  <2>1. PICK front : front = kept \o assets
    OBVIOUS
  <2>2. IsList(front) /\ NamesWith(front, role) = NamesWith(kept, role) \cup NamesWith(assets, role)
    BY <1>9, <1>11, <2>1, ConcatIsList, ConcatNames
  <2> QED
    BY <1>13, <1>14, <2>1, <2>2, ConcatNames
<1>16. role # "asset" => NamesWith(declared, role) = Declares(role, PageNames(input), SourceNames(input), {}, FALSE)
  BY <1>1, <1>2, DocumentNames
<1>17. NamesWith(u.objects, role) = Declares(role, PageNames(input), SourceNames(input), NamesWith(m.objects, "asset"), Later(m))
  <2>1. CASE role = "asset"
    <3>1. NamesWith(u.objects, role) = NamesWith(m.objects, "asset")
      BY <1>6, <1>9, <1>11, <1>13, <1>15, <2>1
    <3> QED
      BY <2>1, <3>1 DEF Declares
  <2>2. CASE role = "diff"
    <3>1. NamesWith(u.objects, role) = IF Later(m) THEN {DiffName} ELSE {}
      BY <1>6, <1>9, <1>11, <1>13, <1>15, <1>16, <2>2 DEF Declares
    <3> QED
      BY <2>2, <3>1 DEF Declares
  <2>3. CASE role \notin {"asset", "diff"}
    <3>1. NamesWith(u.objects, role) = Declares(role, PageNames(input), SourceNames(input), {}, FALSE)
      BY <1>6, <1>9, <1>11, <1>13, <1>15, <1>16, <2>3
    <3> QED
      BY <2>3, <3>1 DEF Declares
  <2> QED
    BY <2>1, <2>2, <2>3
<1> QED
  BY <1>17

-----------------------------------------------------------------------------
(* The names a record of a document with all its sources declares.          *)
AllNames(m, pages) ==
  \A role : NamesWith(m.objects, role) =
              Declares(role, {pages[i].page : i \in DOMAIN pages}, {pages[i].source : i \in DOMAIN pages},
                       NamesWith(m.objects, "asset"), Later(m))

(* Which names have the other roles follows from the records' own checks.   *)
LEMMA OtherRoles ==
  ASSUME NEW m, IsList(m.objects), \A i \in DOMAIN m.objects : ValidObject(m, m.objects[i]),
         OfRole(m.objects, "file") = <<>>,
         Len(OfRole(m.objects, "diff")) = IF Later(m) THEN 1 ELSE 0,
         NEW pages,
         NamesWith(m.objects, "page") = {pages[i].page : i \in DOMAIN pages},
         NamesWith(m.objects, "source") = {pages[i].source : i \in DOMAIN pages}
  PROVE  AllNames(m, pages)
<1>1. NamesWith(m.objects, "file") = {}
  BY FewNames
<1>2. NamesWith(m.objects, "diff") = IF Later(m) THEN {DiffName} ELSE {}
  <2>1. CASE Later(m)
    <3>1. PICK p : p = OfRole(m.objects, "diff")
      OBVIOUS
    <3>2. Len(p) = 1
      BY <2>1, <3>1
    <3>3. NamesWith(m.objects, "diff") = {p[1].name}
      BY <3>1, <3>2, FewNames
    <3>4. 1 \in DOMAIN p
      BY <3>1, <3>2, OfRoleIsList, ListIs
    <3>5. PICK i \in DOMAIN m.objects : m.objects[i].role = "diff" /\ p[1] = m.objects[i]
      BY <3>1, <3>4, OfRoleIs
    <3>6. ValidObject(m, m.objects[i])
      OBVIOUS
    <3>7. m.objects[i].name = DiffName
      BY <3>5, <3>6 DEF ValidObject
    <3> QED
      BY <2>1, <3>3, <3>5, <3>7
  <2>2. CASE ~Later(m)
    BY <2>2, FewNames
  <2> QED
    BY <2>1, <2>2
<1>3. ASSUME NEW role, role \notin {"page", "source", "file", "diff", "asset"}
      PROVE  NamesWith(m.objects, role) = {}
  <2>1. \A i \in DOMAIN m.objects : m.objects[i].role \in {"page", "source", "file", "diff", "asset"}
    BY DEF ValidObject
  <2>2. \A x : x \notin NamesWith(m.objects, role)
    BY <1>3, <2>1, NamedWith
  <2> QED
    BY <2>2
<1> SUFFICES ASSUME NEW role
             PROVE  NamesWith(m.objects, role) =
                      Declares(role, {pages[i].page : i \in DOMAIN pages}, {pages[i].source : i \in DOMAIN pages},
                               NamesWith(m.objects, "asset"), Later(m))
  BY DEF AllNames
<1> QED
  BY <1>1, <1>2, <1>3 DEF Declares

LEMMA ModernIs ==
  ASSUME NEW m, ValidModern(m)
  PROVE  /\ \A i \in DOMAIN m.objects : ValidObject(m, m.objects[i])
         /\ m.version < 6 => Len(OfRole(m.objects, "page")) = 1 /\ Len(OfRole(m.objects, "source")) <= 1
         /\ m.kind = "document" /\ m.version >= 6 => ValidBundle(m)
         /\ m.kind = "document" /\ ~(m.version >= 6) => ValidSinglePage(m)
<1>1. (CASE m.kind = "collection" -> Len(OfRole(m.objects, "page")) = 1 /\ ValidCollection(m)
         [] m.kind = "document" -> IF m.version >= 6 THEN ValidBundle(m) ELSE ValidSinglePage(m)
         [] OTHER -> FALSE)
  BY DEF ValidModern
<1>2. m.kind = "document" => IF m.version >= 6 THEN ValidBundle(m) ELSE ValidSinglePage(m)
  BY <1>1
<1>3. /\ \A i \in DOMAIN m.objects : ValidObject(m, m.objects[i])
      /\ m.version < 6 => Len(OfRole(m.objects, "page")) = 1 /\ Len(OfRole(m.objects, "source")) <= 1
  BY DEF ValidModern
<1> QED
  BY <1>2, <1>3

LEMMA DiffIs ==
  ASSUME NEW m, ValidDiff(m)
  PROVE  Len(OfRole(m.objects, "diff")) = IF Later(m) THEN 1 ELSE 0
BY DEF ValidDiff, Later

(* From version 6 on: every page is described, and has a source.            *)
LEMMA BundleNames ==
  ASSUME NEW m, HasLists(m), ValidModern(m), m.version >= 6, m.kind = "document", m.format = "md",
         \A i \in DOMAIN m.pages : m.pages[i].source # NoPath
  PROVE  /\ AllNames(m, m.pages) /\ 1 \in DOMAIN m.pages
         /\ m.pages[1].format = "md" /\ m.pages[1].page = m.entrypoint
<1>1. ValidBundle(m)
  BY ModernIs
<1>2. OfRole(m.objects, "file") = <<>> /\ ValidDiff(m)
  BY <1>1 DEF ValidBundle
<1>3. Len(OfRole(m.objects, "page")) = Len(m.pages)
  <2>1. (CASE m.format = "html" -> Len(OfRole(m.objects, "page")) = 1 /\ m.pages = <<>>
                                   /\ OfRole(m.objects, "source") = <<>>
           [] m.format = "txt" -> Len(OfRole(m.objects, "page")) = 1 /\ Len(m.pages) = 1
           [] m.format = "md" -> Len(OfRole(m.objects, "page")) = Len(m.pages)
           [] OTHER -> FALSE)
    BY <1>1 DEF ValidBundle
  <2> QED
    BY <2>1
<1>4. /\ m.format # "html" => m.pages # <<>> /\ m.pages[1].format = m.format
      /\ \A i \in DOMAIN m.pages : ValidDescriptor(m, i)
  BY <1>1 DEF ValidBundle
<1>5. \A i, j \in DOMAIN m.pages : i # j =>
         /\ m.pages[i].page # m.pages[j].page
         /\ m.pages[i].source = NoPath \/ m.pages[i].source # m.pages[j].source
  BY <1>1 DEF ValidBundle
<1>6. Cardinality({i \in DOMAIN m.pages : m.pages[i].source # NoPath}) = Len(OfRole(m.objects, "source"))
  BY <1>1 DEF ValidBundle
<1>7. PICK n \in Nat : n = Len(m.pages) /\ DOMAIN m.pages = 1..n /\ m.pages = [i \in 1..n |-> m.pages[i]]
  BY ListIs DEF HasLists, IsPages
<1>8. IsList(m.objects)
  BY DEF HasLists
<1>9. 1 \in DOMAIN m.pages /\ m.pages[1].format = "md"
  <2>1. m.pages # <<>> /\ m.pages[1].format = "md"
    BY <1>4
  <2>2. n # 0
    <3> SUFFICES ASSUME n = 0 PROVE FALSE
      OBVIOUS
    <3>1. IsList(m.pages)
      BY DEF HasLists, IsPages
    <3>2. \E S : m.pages \in Seq(S)
      BY <3>1, ListIs
    <3> QED
      BY <1>7, <2>1, <3>2
  <2> QED
    BY <1>7, <2>1, <2>2
<1>10. Len(OfRole(m.objects, "source")) = n
  <2>1. {i \in DOMAIN m.pages : m.pages[i].source # NoPath} = 1..n
    BY <1>7
  <2>2. Cardinality(1..n) = n
    BY FS_Interval
  <2> QED
    BY <1>6, <2>1, <2>2
<1>11. \A i \in 1..n : /\ m.pages[i].page \in NamesWith(m.objects, "page")
                       /\ m.pages[i].source \in NamesWith(m.objects, "source")
  <2> SUFFICES ASSUME NEW i \in 1..n
               PROVE  /\ m.pages[i].page \in NamesWith(m.objects, "page")
                      /\ m.pages[i].source \in NamesWith(m.objects, "source")
    OBVIOUS
  <2>1. ValidDescriptor(m, i) /\ m.pages[i].source # NoPath
    BY <1>4, <1>7
  <2>2. /\ \E o \in DOMAIN m.objects : m.objects[o].name = m.pages[i].page /\ m.objects[o].role = "page"
        /\ \E o \in DOMAIN m.objects : m.objects[o].name = m.pages[i].source /\ m.objects[o].role = "source"
    BY <2>1 DEF ValidDescriptor
  <2> QED
    BY <2>2, NamedWith
<1>12. PICK pages, sources : /\ pages = [i \in 1..n |-> m.pages[i].page]
                             /\ sources = [i \in 1..n |-> m.pages[i].source]
  OBVIOUS
<1>13. NamesWith(m.objects, "page") = {pages[i] : i \in 1..n}
  <2>1. \A i \in 1..n : pages[i] \in NamesWith(m.objects, "page")
    BY <1>11, <1>12
  <2>2. \A i, j \in 1..n : i # j => pages[i] # pages[j]
    BY <1>5, <1>7, <1>12
  <2>3. Len(OfRole(m.objects, "page")) = n
    BY <1>3, <1>7
  <2> QED
    BY <1>8, <2>1, <2>2, <2>3, NamesAll
<1>14. NamesWith(m.objects, "source") = {sources[i] : i \in 1..n}
  <2>1. \A i \in 1..n : sources[i] \in NamesWith(m.objects, "source")
    BY <1>11, <1>12
  <2>2. \A i, j \in 1..n : i # j => sources[i] # sources[j]
    BY <1>5, <1>7, <1>12
  <2> QED
    BY <1>8, <1>10, <2>1, <2>2, NamesAll
<1>15. /\ NamesWith(m.objects, "page") = {m.pages[i].page : i \in DOMAIN m.pages}
       /\ NamesWith(m.objects, "source") = {m.pages[i].source : i \in DOMAIN m.pages}
  BY <1>7, <1>12, <1>13, <1>14
<1>16. AllNames(m, m.pages)
  <2>1. \A i \in DOMAIN m.objects : ValidObject(m, m.objects[i])
    BY ModernIs
  <2>2. Len(OfRole(m.objects, "diff")) = IF Later(m) THEN 1 ELSE 0
    BY <1>2, DiffIs
  <2> QED
    BY <1>2, <1>8, <1>15, <2>1, <2>2, OtherRoles
<1>17. m.pages[1].page = m.entrypoint
  BY <1>4, <1>9 DEF ValidDescriptor
<1> QED
  BY <1>9, <1>16, <1>17

(* Before version 6 there are one page and one source.                      *)
OnePage(m) == <<Descriptor(m.source, m.page, m.source, m.format)>>

LEMMA OnePageIs ==
  ASSUME NEW m
  PROVE  /\ IsPages(OnePage(m)) /\ DOMAIN OnePage(m) = {1}
         /\ OnePage(m)[1].page = m.page /\ OnePage(m)[1].source = m.source
         /\ OnePage(m)[1].format = m.format
         /\ {OnePage(m)[i].page : i \in DOMAIN OnePage(m)} = {m.page}
         /\ {OnePage(m)[i].source : i \in DOMAIN OnePage(m)} = {m.source}
<1>1. PICK d : d = Descriptor(m.source, m.page, m.source, m.format)
  OBVIOUS
<1>2. OnePage(m) = <<d>>
  BY <1>1 DEF OnePage
<1>3. d.page = m.page /\ d.source = m.source /\ d.format = m.format /\ d.path = m.source
  BY <1>1 DEF Descriptor
<1>4. DOMAIN <<d>> = {1} /\ <<d>>[1] = d
  OBVIOUS
<1>5. IsPages(<<d>>)
  BY <1>1, <1>3, <1>4, OneIsList DEF IsPages
<1> QED
  BY <1>2, <1>3, <1>4, <1>5

LEMMA SinglePageNames ==
  ASSUME NEW m, HasLists(m), ValidModern(m), ~(m.version >= 6), m.kind = "document",
         m.page = OfRole(m.objects, "page")[1].name,
         OfRole(m.objects, "source") # <<>>, m.source = OfRole(m.objects, "source")[1].name,
         m.version \in Int, m.version < 4 => m.revision = <<>>
  PROVE  AllNames(m, OnePage(m))
<1>1. ValidSinglePage(m)
  BY ModernIs
<1>2. OfRole(m.objects, "file") = <<>>
  BY <1>1 DEF ValidSinglePage
<1>3. IF m.version >= 4 THEN ValidDiff(m) ELSE OfRole(m.objects, "diff") = <<>>
  BY <1>1 DEF ValidSinglePage
<1>4. IsList(m.objects)
  BY DEF HasLists
<1>5. Len(OfRole(m.objects, "diff")) = IF Later(m) THEN 1 ELSE 0
  <2>1. CASE m.version >= 4
    BY <1>3, <2>1, DiffIs
  <2>2. CASE ~(m.version >= 4)
    <3>1. m.revision = <<>>
      BY <2>2
    <3>2. ~Later(m)
      BY <3>1 DEF Later
    <3> QED
      BY <1>3, <2>2, <3>2
  <2> QED
    BY <2>1, <2>2
<1>6. Len(OfRole(m.objects, "page")) = 1 /\ Len(OfRole(m.objects, "source")) <= 1
  BY ModernIs
<1>7. Len(OfRole(m.objects, "source")) = 1
  <2>1. PICK p : p = OfRole(m.objects, "source")
    OBVIOUS
  <2>2. Len(p) \in Nat /\ \E S : p \in Seq(S)
    <3>1. IsList(p)
      BY <1>4, <2>1, OfRoleIsList
    <3> QED
      BY <3>1, ListIs
  <2>3. ASSUME Len(p) = 0 PROVE FALSE
    <3>1. p # <<>>
      BY <2>1
    <3>2. PICK S : p \in Seq(S)
      BY <2>2
    <3>3. p = <<>>
      BY <2>3, <3>2
    <3> QED
      BY <3>1, <3>3
  <2>4. Len(p) <= 1 /\ Len(p) \in Nat
    BY <1>6, <2>1, <2>2
  <2>5. PICK n \in Nat : n = Len(p)
    BY <2>4
  <2>6. n <= 1 /\ n # 0
    BY <2>3, <2>4, <2>5
  <2>7. n = 1
    BY <2>6
  <2> QED
    BY <2>1, <2>5, <2>7
<1>8. NamesWith(m.objects, "page") = {m.page} /\ NamesWith(m.objects, "source") = {m.source}
  BY <1>4, <1>6, <1>7, FewNames
<1>9. \A i \in DOMAIN m.objects : ValidObject(m, m.objects[i])
  BY ModernIs
<1>10. PICK pages : pages = OnePage(m)
  OBVIOUS
<1>11. /\ NamesWith(m.objects, "page") = {pages[i].page : i \in DOMAIN pages}
       /\ NamesWith(m.objects, "source") = {pages[i].source : i \in DOMAIN pages}
  BY <1>8, <1>10, OnePageIs
<1> QED
  BY <1>2, <1>4, <1>5, <1>9, <1>10, <1>11, OtherRoles

LEMMA SeenAs ==
  ASSUME NEW r, HasLists(r), NEW a, NEW b,
         a = Object(r.page, "page", r.pageBytes, ""), b = Object(r.source, "source", 0, "")
  PROVE  /\ WithObjects(r).page = r.page /\ WithObjects(r).source = r.source
         /\ WithObjects(r).format = r.format
         /\ WithObjects(r).objects = <<a>> \o (IF r.source = NoPath THEN <<>> ELSE <<b>>)
<1>1. PICK objects : objects = <<a>> \o (IF r.source = NoPath THEN <<>> ELSE <<b>>)
  OBVIOUS
<1>2. PICK k, s : WithObjects(r) = [r EXCEPT !.kind = k, !.slug = s, !.objects = objects]
  BY <1>1 DEF WithObjects
<1>3. PICK n : n = WithObjects(r)
  OBVIOUS
<1>4. n.page = r.page /\ n.source = r.source /\ n.format = r.format /\ n.objects = objects
  BY <1>2, <1>3, BlankFields DEF HasLists, IsRecord, Contents, Views
<1> QED
  BY <1>1, <1>3, <1>4, Zenon

(* Versions 1 and 2 are seen as a page object and a source object.          *)
LEMMA SeenNames ==
  ASSUME NEW r, HasLists(r), r.source # NoPath, r.revision = <<>>, NEW m, m = WithObjects(r)
  PROVE  /\ m.page = r.page /\ m.source = r.source /\ m.format = r.format
         /\ AllNames(m, OnePage(m))
<1>1. PICK a, b : /\ a = Object(r.page, "page", r.pageBytes, "")
                  /\ b = Object(r.source, "source", 0, "")
  OBVIOUS
<1>2. a.name = r.page /\ a.role = "page" /\ b.name = r.source /\ b.role = "source"
  BY <1>1 DEF Object
<1>3. PICK objects : objects = <<a>> \o (IF r.source = NoPath THEN <<>> ELSE <<b>>)
  OBVIOUS
<1>4. m.page = r.page /\ m.source = r.source /\ m.format = r.format /\ m.objects = objects
  BY <1>1, <1>3, SeenAs, Zenon
<1>5. m.revision = r.revision
  BY WithObjectsIs
<1>6. ~Later(m)
  BY <1>5 DEF Later
<1>7. Range(objects) = {a, b}
  <2>1. IsList(<<a>>) /\ IsList(<<b>>)
    BY OneIsList
  <2>2. objects = <<a>> \o <<b>>
    BY <1>3
  <2>3. Range(objects) = Range(<<a>>) \cup Range(<<b>>)
    BY <2>1, <2>2, ConcatHolds
  <2> QED
    BY <2>3, OneHeld
<1>8. \A role, x : x \in NamesWith(objects, role) <=>
                     (role = "page" /\ x = r.page) \/ (role = "source" /\ x = r.source)
  BY <1>2, <1>7, NamesHeld
<1>9. /\ {OnePage(m)[i].page : i \in DOMAIN OnePage(m)} = {r.page}
      /\ {OnePage(m)[i].source : i \in DOMAIN OnePage(m)} = {r.source}
  BY <1>4, OnePageIs
<1>10. ASSUME NEW role
       PROVE  NamesWith(objects, role) =
                Declares(role, {r.page}, {r.source}, NamesWith(objects, "asset"), Later(m))
  <2>1. CASE role = "page"
    BY <1>8, <2>1 DEF Declares
  <2>2. CASE role = "source"
    BY <1>8, <2>2 DEF Declares
  <2>3. CASE role \notin {"page", "source"}
    BY <1>6, <1>8, <2>3 DEF Declares
  <2> QED
    BY <2>1, <2>2, <2>3
<1>11. AllNames(m, OnePage(m))
  BY <1>4, <1>9, <1>10, Zenon DEF AllNames
<1> QED
  BY <1>4, <1>11

LEMMA ViewsAre ==
  ASSUME NEW r, IsRecord(r), NEW m, m = WithViews(r)
  PROVE  /\ r.version >= 6 /\ r.kind = "document" =>
               /\ m.page = r.entrypoint
               /\ m.source = IF r.pages # <<>> THEN r.pages[1].source ELSE NoPath
         /\ ~(r.version >= 6 /\ r.kind = "document") =>
               /\ m.page = OfRole(r.objects, "page")[1].name
               /\ m.source = IF OfRole(r.objects, "source") # <<>>
                             THEN OfRole(r.objects, "source")[1].name ELSE NoPath
<1> DEFINE Seen(a, b, c, d) == [r EXCEPT !.page = a, !.pageBytes = b, !.pageDigest = c, !.source = d]
<1>1. \A a, b, c, d : Seen(a, b, c, d).page = a /\ Seen(a, b, c, d).source = d
  BY BlankFields DEF IsRecord, Views
<1>2. ASSUME r.version >= 6, r.kind = "document"
      PROVE  /\ m.page = r.entrypoint
             /\ m.source = IF r.pages # <<>> THEN r.pages[1].source ELSE NoPath
  <2>1. m = Seen(r.entrypoint, Named(r.objects, r.entrypoint).bytes, Named(r.objects, r.entrypoint).digest,
                 IF r.pages # <<>> THEN r.pages[1].source ELSE NoPath)
    BY <1>2 DEF WithViews
  <2> HIDE DEF Seen
  <2> QED BY <1>1, <2>1
<1>3. ASSUME ~(r.version >= 6 /\ r.kind = "document")
      PROVE  /\ m.page = OfRole(r.objects, "page")[1].name
             /\ m.source = IF OfRole(r.objects, "source") # <<>>
                           THEN OfRole(r.objects, "source")[1].name ELSE NoPath
  <2>1. m = Seen(OfRole(r.objects, "page")[1].name, OfRole(r.objects, "page")[1].bytes,
                 OfRole(r.objects, "page")[1].digest,
                 IF OfRole(r.objects, "source") # <<>> THEN OfRole(r.objects, "source")[1].name ELSE NoPath)
    BY <1>3 DEF WithViews
  <2> HIDE DEF Seen
  <2> QED BY <1>1, <2>1
<1> QED
  BY <1>2, <1>3

(* A record of a document with all its sources: the first page is the entry, *)
(* and the names it declares are those its pages stand for.                 *)
LEMMA RecordNames ==
  ASSUME MarkerInv, stage = "read", NEW m, m = record[1], SourceBacked(m),
         \A i \in DOMAIN MarkerPages(m) : MarkerPages(m)[i].source # NoPath
  PROVE  /\ HasLists(m) /\ IsPages(MarkerPages(m)) /\ 1 \in DOMAIN MarkerPages(m)
         /\ MarkerPages(m)[1].format = "md"
         /\ m.page = MarkerPages(m)[1].page /\ m.source = MarkerPages(m)[1].source
         /\ AllNames(m, MarkerPages(m))
<1>1. PICK r : r = Read(body)
  OBVIOUS
<1>2. /\ m = Normalized(r) /\ HasLists(r) /\ HasLists(m) /\ r.version \in 1..Current
      /\ m.version < 4 => m.revision = <<>>
  BY <1>1, RecordIs DEF Decoded
<1>3. PICK kind : Valid(r, kind)
  BY <1>1, RecordIs DEF Accepted
<1>4. m.kind = "document" /\ m.format = "md" /\ m.source # NoPath
  BY DEF SourceBacked
<1>5. r.version \in Int /\ m.version = r.version
  <2>1. r.version \in Int
    BY <1>2 DEF Current
  <2>2. CASE r.version >= 3
    BY <1>2, <2>2, WithViewsIs DEF Normalized, HasLists, SameContents, Contents
  <2>3. CASE ~(r.version >= 3)
    BY <1>2, <2>3, WithObjectsIs DEF Normalized
  <2> QED
    BY <2>1, <2>2, <2>3
<1>6. CASE r.version >= 3
  <2>1. m = WithViews(r) /\ IsRecord(r)
    BY <1>2, <1>6 DEF Normalized, HasLists
  <2>2. SameContents(m, r) /\ SameContents(r, m)
    BY <2>1, WithViewsIs DEF SameContents
  <2>3. /\ m.kind = r.kind /\ m.objects = r.objects /\ m.pages = r.pages /\ m.entrypoint = r.entrypoint
    BY <2>2 DEF SameContents, Contents
  <2>4. Valid(m, kind)
    BY <1>3, <1>6, <2>2, SameIsValid
  <2>5. ValidModern(m)
    BY <1>5, <1>6, <2>4 DEF Valid
  <2>6. CASE r.version >= 6
    <3>1. MarkerPages(m) = m.pages
      BY <1>5, <2>6 DEF MarkerPages
    <3>2. /\ AllNames(m, m.pages) /\ 1 \in DOMAIN m.pages
          /\ m.pages[1].format = "md" /\ m.pages[1].page = m.entrypoint
      BY <1>2, <1>4, <1>5, <2>5, <2>6, <3>1, BundleNames
    <3>3. /\ m.page = r.entrypoint
          /\ m.source = IF r.pages # <<>> THEN r.pages[1].source ELSE NoPath
      BY <1>4, <2>1, <2>3, <2>6, ViewsAre
    <3>4. m.source = m.pages[1].source
      BY <1>4, <2>3, <3>3
    <3>5. IsPages(m.pages)
      BY <1>2 DEF HasLists
    <3> QED
      BY <1>2, <2>3, <3>1, <3>2, <3>3, <3>4, <3>5
  <2>7. CASE ~(r.version >= 6)
    <3>1. MarkerPages(m) = OnePage(m)
      BY <1>5, <2>7 DEF MarkerPages, OnePage
    <3>2. /\ m.page = OfRole(m.objects, "page")[1].name
          /\ m.source = IF OfRole(m.objects, "source") # <<>>
                        THEN OfRole(m.objects, "source")[1].name ELSE NoPath
      BY <2>1, <2>3, <2>7, ViewsAre
    <3>3. OfRole(m.objects, "source") # <<>> /\ m.source = OfRole(m.objects, "source")[1].name
      BY <1>4, <3>2
    <3>4. AllNames(m, OnePage(m))
      BY <1>2, <1>4, <1>5, <2>5, <2>7, <3>2, <3>3, SinglePageNames
    <3> QED
      BY <1>2, <1>4, <3>1, <3>4, OnePageIs
  <2> QED
    BY <2>6, <2>7
<1>7. CASE ~(r.version >= 3)
  <2>1. m = WithObjects(r)
    BY <1>2, <1>7 DEF Normalized
  <2>2. MarkerPages(m) = OnePage(m)
    BY <1>5, <1>7 DEF MarkerPages, OnePage
  <2>3. r.revision = <<>>
    <3>1. m.revision = r.revision
      BY <1>2, <2>1, WithObjectsIs
    <3> QED
      BY <1>2, <1>5, <1>7, <3>1
  <2>4. r.source # NoPath
    <3>1. m.source = r.source
      BY <1>2, <2>1, SeenAs, Zenon
    <3> QED
      BY <1>4, <3>1
  <2>5. AllNames(m, OnePage(m))
    BY <1>2, <2>1, <2>3, <2>4, SeenNames
  <2> QED
    BY <1>2, <1>4, <2>2, <2>5, OnePageIs
<1> QED
  BY <1>6, <1>7

(* The declared names with their roles, from the names of each role.        *)
NamesAndRoles(objects) == {<<objects[i].name, objects[i].role>> : i \in DOMAIN objects}

LEMMA SameNamesAndRoles ==
  ASSUME NEW s, NEW t, \A role : NamesWith(s, role) = NamesWith(t, role)
  PROVE  NamesAndRoles(s) = NamesAndRoles(t)
<1>1. \A u, v : (\A role : NamesWith(u, role) = NamesWith(v, role)) => NamesAndRoles(u) \subseteq NamesAndRoles(v)
  <2> SUFFICES ASSUME NEW u, NEW v, \A role : NamesWith(u, role) = NamesWith(v, role)
               PROVE  NamesAndRoles(u) \subseteq NamesAndRoles(v)
    OBVIOUS
  <2>1. ASSUME NEW i \in DOMAIN u PROVE <<u[i].name, u[i].role>> \in NamesAndRoles(v)
    <3>1. u[i].name \in NamesWith(u, u[i].role)
      BY NamedWith
    <3>2. u[i].name \in NamesWith(v, u[i].role)
      BY <3>1
    <3>3. PICK j \in DOMAIN v : v[j].role = u[i].role /\ v[j].name = u[i].name
      BY <3>2, NamedWith
    <3> QED
      BY <3>3 DEF NamesAndRoles
  <2> QED
    BY <2>1 DEF NamesAndRoles
<1> QED
  BY <1>1

(* A rewrite of the same graph describes the same pages.                    *)
LEMMA SameGraphPages ==
  ASSUME NEW m, NEW input, input = Rerendered(m), SameGraph(m, input),
         IsPages(MarkerPages(m)), 1 \in DOMAIN MarkerPages(m), MarkerPages(m)[1].format = "md",
         \A i \in DOMAIN MarkerPages(m) : MarkerPages(m)[i].source # NoPath
  PROVE  /\ DOMAIN input.pages = DOMAIN MarkerPages(m)
         /\ \A i \in DOMAIN MarkerPages(m) :
               /\ PageName(input, i) = MarkerPages(m)[i].page
               /\ SourceName(input, i) = MarkerPages(m)[i].source
         /\ DocumentPages(input) = MarkerPages(m)
<1>1. PICK pages : pages = MarkerPages(m)
  OBVIOUS
<1>2. PICK given : given = [i \in DOMAIN pages |-> [path |-> pages[i].path, format |-> pages[i].format]]
  OBVIOUS
<1>3. input.pages = given
  BY <1>1, <1>2 DEF Rerendered
<1>4. /\ DOMAIN given = DOMAIN pages
      /\ \A i \in DOMAIN pages : given[i].path = pages[i].path /\ given[i].format = pages[i].format
  BY <1>2
<1>5. \A i \in DOMAIN pages : PageName(input, i) = pages[i].page /\ SourceName(input, i) = pages[i].source
  BY <1>1 DEF SameGraph
<1>6. input.pages[1].format = "md"
  BY <1>1, <1>3, <1>4
<1>7. PICK described : described = DocumentPages(input)
  OBVIOUS
<1>8. described = [i \in DOMAIN pages |->
                     Descriptor(given[i].path, PageName(input, i), SourceName(input, i), given[i].format)]
  BY <1>3, <1>4, <1>6, <1>7 DEF DocumentPages
<1>9. \A i \in DOMAIN pages : described[i] = pages[i]
  <2> SUFFICES ASSUME NEW i \in DOMAIN pages PROVE described[i] = pages[i]
    OBVIOUS
  <2>1. described[i] = Descriptor(pages[i].path, pages[i].page, pages[i].source, pages[i].format)
    BY <1>4, <1>5, <1>8
  <2>2. pages[i] = Descriptor(pages[i].path, pages[i].page, pages[i].source, pages[i].format)
    BY <1>1 DEF IsPages
  <2> QED
    BY <2>1, <2>2
<1>10. described = pages
  <2>1. pages = [i \in DOMAIN pages |-> pages[i]]
    <3>1. IsList(pages)
      BY <1>1 DEF IsPages
    <3> QED
      BY <3>1, ListIs
  <2>2. described = [i \in DOMAIN pages |-> described[i]]
    BY <1>8
  <2> QED
    BY <1>9, <2>1, <2>2
<1> QED
  BY <1>1, <1>3, <1>4, <1>5, <1>7, <1>10

(* What this release writes it neither strips nor sees as older.            *)
LEMMA CurrentAsIs ==
  ASSUME NEW u, u.version = 7
  PROVE  Stripped(u) = u /\ Normalized(u) = WithViews(u)
BY DEF Stripped, Normalized

LEMMA UpgradeKeeps ==
  ASSUME MarkerInv, ExecuteDocumentUpgrade, stage' = "stored", NEW was, was = record[1],
         NEW now, now = written'[1]
  PROVE  /\ NamesAndRoles(now.objects) = NamesAndRoles(was.objects)
         /\ now.page = was.page /\ now.source = was.source
         /\ now.pages = MarkerPages(was)
<1>1. PICK input : input = Rerendered(was)
  OBVIOUS
<1>2. PICK u : u = UpgradedMarker(was, input)
  OBVIOUS
<1>3. /\ stage = "read" /\ SourceBacked(was)
      /\ \A i \in DOMAIN MarkerPages(was) : MarkerPages(was)[i].source # NoPath
  BY DEF ExecuteDocumentUpgrade
<1>4. SameGraph(was, input) /\ Write(u, "unupgraded")
  BY <1>1, <1>2 DEF ExecuteDocumentUpgrade
<1>5. written' = <<Normalized(Stripped(u))>>
  BY <1>4 DEF Write
<1>6. PICK pages : pages = MarkerPages(was)
  OBVIOUS
<1>7. /\ HasLists(was) /\ IsPages(pages) /\ 1 \in DOMAIN pages /\ pages[1].format = "md"
      /\ was.page = pages[1].page /\ was.source = pages[1].source /\ AllNames(was, pages)
  BY <1>3, <1>6, RecordNames
<1>8. /\ DOMAIN input.pages = DOMAIN pages
      /\ \A i \in DOMAIN pages : PageName(input, i) = pages[i].page /\ SourceName(input, i) = pages[i].source
      /\ DocumentPages(input) = pages
  BY <1>1, <1>3, <1>4, <1>6, <1>7, SameGraphPages
<1>9. /\ IsRecord(u) /\ u.version = 7 /\ u.kind = "document"
      /\ u.entrypoint = PageName(input, 1) /\ u.pages = DocumentPages(input)
  BY <1>1, <1>2, <1>7, UpgradedIs
<1>10. now = WithViews(u)
  BY <1>5, <1>9, CurrentAsIs
<1>11. now.objects = u.objects /\ now.pages = u.pages
  BY <1>9, <1>10, WithViewsIs DEF SameContents, Contents
<1>12. now.page = u.entrypoint /\ now.source = pages[1].source
  <2>1. /\ now.page = u.entrypoint
        /\ now.source = IF u.pages # <<>> THEN u.pages[1].source ELSE NoPath
    BY <1>9, <1>10, ViewsAre
  <2>2. pages # <<>>
    BY <1>7
  <2> QED
    BY <1>8, <1>9, <2>1, <2>2
<1>13. \A role : NamesWith(u.objects, role) = NamesWith(was.objects, role)
  <2> SUFFICES ASSUME NEW role PROVE NamesWith(u.objects, role) = NamesWith(was.objects, role)
    OBVIOUS
  <2> DEFINE pageWas == {pages[i].page : i \in DOMAIN pages}
             sourceWas == {pages[i].source : i \in DOMAIN pages}
  <2>1. NamesWith(u.objects, role) =
          Declares(role, PageNames(input), SourceNames(input), NamesWith(was.objects, "asset"), Later(was))
    BY <1>1, <1>2, <1>7, UpgradedNames
  <2>2. NamesWith(was.objects, role) =
          Declares(role, pageWas, sourceWas, NamesWith(was.objects, "asset"), Later(was))
    BY <1>7 DEF AllNames
  <2>3. PageNames(input) = pageWas
    BY <1>8 DEF PageNames
  <2>4. SourceNames(input) = sourceWas
    <3>1. {j \in DOMAIN input.pages : SourceName(input, j) # NoPath} = DOMAIN pages
      BY <1>3, <1>6, <1>8
    <3>2. SourceNames(input) = {SourceName(input, i) : i \in DOMAIN pages}
      BY <3>1 DEF SourceNames
    <3> QED
      BY <1>8, <3>2
  <2> HIDE DEF pageWas, sourceWas
  <2> QED
    BY <2>1, <2>2, <2>3, <2>4
<1>14. NamesAndRoles(now.objects) = NamesAndRoles(was.objects)
  BY <1>11, <1>13, SameNamesAndRoles
<1> QED
  BY <1>6, <1>7, <1>8, <1>9, <1>11, <1>12, <1>14

(* An upgrade keeps every address, however old the marker it replaces: the  *)
(* entry page and its source, every page with its source, every asset and   *)
(* every diff are declared under the names and roles they had: the property *)
(* UpgradeKeepsAddresses, of ExecuteDocumentUpgrade with its check that the *)
(* rendered graph is the declared one.                                      *)
THEOREM UpgradesKeepAddresses == Spec => UpgradeKeepsAddresses
<1>1. MarkerInv /\ [Next]_vars =>
        [ExecuteDocumentUpgrade /\ stage' = "stored" =>
           LET was == record[1]
               now == written'[1]
               declared(m) == {<<m.objects[i].name, m.objects[i].role>> : i \in DOMAIN m.objects}
           IN  /\ declared(now) = declared(was)
               /\ now.page = was.page /\ now.source = was.source
               /\ now.pages = MarkerPages(was)]_vars
  <2> SUFFICES ASSUME MarkerInv, ExecuteDocumentUpgrade, stage' = "stored",
                      NEW was, was = record[1], NEW now, now = written'[1]
               PROVE  /\ {<<now.objects[i].name, now.objects[i].role>> : i \in DOMAIN now.objects}
                           = {<<was.objects[i].name, was.objects[i].role>> : i \in DOMAIN was.objects}
                      /\ now.page = was.page /\ now.source = was.source
                      /\ now.pages = MarkerPages(was)
    OBVIOUS
  <2> QED
    BY UpgradeKeeps DEF NamesAndRoles
<1> QED
  BY <1>1, MarkerInvHolds, PTL DEF Spec, UpgradeKeepsAddresses
=============================================================================
