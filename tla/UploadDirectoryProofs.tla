------------------------ MODULE UploadDirectoryProofs ------------------------
(***************************************************************************)
(* What holds of UploadDirectory for every document, every number of       *)
(* upgrades of any releases and every number of deletions.                 *)
(*                                                                         *)
(* The first part is about the program an upgrade executes: which          *)
(* instruction precedes which.  The second is the inductive invariant:     *)
(* what an upgrade knows of the store follows from the instructions it has *)
(* behind it.  The third is about deletions, and the last shows that       *)
(* UploadDirectory implements PublishedUpload.                             *)
(***************************************************************************)
EXTENDS UploadDirectory, FiniteSetTheorems, SequenceTheorems, TLAPS

(* The objects are who they seem to be, and none of them is another.       *)
USE ObjectsAssumption

-----------------------------------------------------------------------------
(* Instructions and their order.                                           *)

Passes == {"plan", "fresh", "decide", "spool", "put", "new", "same"}
Instructions == Passes \X Objects

Has(s, a) == \E i \in DOMAIN s : s[i] = a

(* Whoever executes b has executed a.                                      *)
Before(s, a, b) == \A i \in DOMAIN s : s[i] = b => \E j \in 1..(i - 1) : s[j] = a

(* Whoever has executed a does not execute b.                              *)
NotAfter(s, a, b) == \A i, j \in DOMAIN s : s[i] = a /\ s[j] = b => j <= i

(* The instructions of a concatenation are those of its parts.             *)
LEMMA ConcatParts ==
  ASSUME NEW S, NEW s \in Seq(S), NEW t \in Seq(S)
  PROVE  /\ s \o t \in Seq(S)
         /\ Len(s) \in Nat /\ Len(t) \in Nat
         /\ DOMAIN s = 1..Len(s) /\ DOMAIN t = 1..Len(t)
         /\ DOMAIN (s \o t) = 1..(Len(s) + Len(t))
         /\ \A i \in DOMAIN s : i \in DOMAIN (s \o t) /\ (s \o t)[i] = s[i]
         /\ \A i \in DOMAIN t : Len(s) + i \in DOMAIN (s \o t) /\ (s \o t)[Len(s) + i] = t[i]
         /\ \A i \in DOMAIN (s \o t) :
              \/ i \in DOMAIN s /\ (s \o t)[i] = s[i]
              \/ i > Len(s) /\ i - Len(s) \in DOMAIN t /\ (s \o t)[i] = t[i - Len(s)]
<1>1. Len(s) \in Nat /\ Len(t) \in Nat /\ DOMAIN s = 1..Len(s) /\ DOMAIN t = 1..Len(t)
  BY LenProperties
<1>2. s \o t \in Seq(S) /\ Len(s \o t) = Len(s) + Len(t)
  BY ConcatProperties
<1>3. DOMAIN (s \o t) = 1..(Len(s) + Len(t))
  BY <1>2, LenProperties
<1>4. \A i \in 1..(Len(s) + Len(t)) : (s \o t)[i] = IF i <= Len(s) THEN s[i] ELSE t[i - Len(s)]
  BY ConcatProperties
<1> DEFINE st == s \o t
<1>5. /\ st \in Seq(S) /\ DOMAIN st = 1..(Len(s) + Len(t))
      /\ \A i \in 1..(Len(s) + Len(t)) : st[i] = IF i <= Len(s) THEN s[i] ELSE t[i - Len(s)]
  BY <1>2, <1>3, <1>4
<1> HIDE DEF st
<1>6. \A i \in DOMAIN s : i \in DOMAIN st /\ st[i] = s[i]
  BY <1>1, <1>5
<1>7. \A i \in DOMAIN t : Len(s) + i \in DOMAIN st /\ st[Len(s) + i] = t[i]
  BY <1>1, <1>5
<1>8. \A i \in DOMAIN st : \/ i \in DOMAIN s /\ st[i] = s[i]
                           \/ i > Len(s) /\ i - Len(s) \in DOMAIN t /\ st[i] = t[i - Len(s)]
  BY <1>1, <1>5
<1> QED
  BY <1>1, <1>5, <1>6, <1>7, <1>8 DEF st

LEMMA ConcatHas ==
  ASSUME NEW S, NEW s \in Seq(S), NEW t \in Seq(S), NEW a
  PROVE  Has(s \o t, a) <=> Has(s, a) \/ Has(t, a)
<1> DEFINE st == s \o t
<1>1. /\ \A i \in DOMAIN s : i \in DOMAIN st /\ st[i] = s[i]
      /\ \A i \in DOMAIN t : Len(s) + i \in DOMAIN st /\ st[Len(s) + i] = t[i]
      /\ \A i \in DOMAIN st : \/ i \in DOMAIN s /\ st[i] = s[i]
                              \/ i - Len(s) \in DOMAIN t /\ st[i] = t[i - Len(s)]
  BY ConcatParts
<1> HIDE DEF st
<1> QED
  BY <1>1 DEF Has, st

(* What precedes in the first part precedes in the second.                 *)
LEMMA ConcatBefore ==
  ASSUME NEW S, NEW s \in Seq(S), NEW t \in Seq(S), NEW a, NEW b,
         Before(s, a, b), Has(s, a) \/ Before(t, a, b)
  PROVE  Before(s \o t, a, b)
<1> DEFINE st == s \o t
<1>1. /\ Len(s) \in Nat /\ DOMAIN s = 1..Len(s) /\ DOMAIN t = 1..Len(t) /\ Len(t) \in Nat
      /\ \A i \in DOMAIN s : i \in DOMAIN st /\ st[i] = s[i]
      /\ \A i \in DOMAIN t : Len(s) + i \in DOMAIN st /\ st[Len(s) + i] = t[i]
      /\ \A i \in DOMAIN st : \/ i \in DOMAIN s /\ st[i] = s[i]
                              \/ i > Len(s) /\ i - Len(s) \in DOMAIN t /\ st[i] = t[i - Len(s)]
      /\ DOMAIN st = 1..(Len(s) + Len(t))
  BY ConcatParts
<1> HIDE DEF st
<1> SUFFICES ASSUME NEW i \in DOMAIN st, st[i] = b PROVE \E j \in 1..(i - 1) : st[j] = a
  BY DEF Before, st
<1>2. CASE i \in DOMAIN s /\ st[i] = s[i]
  <2>1. PICK j \in 1..(i - 1) : s[j] = a
    BY <1>2 DEF Before
  <2>2. j \in DOMAIN s
    BY <1>1, <1>2
  <2> QED
    BY <1>1, <2>1, <2>2
<1>3. CASE i > Len(s) /\ i - Len(s) \in DOMAIN t /\ st[i] = t[i - Len(s)]
  <2>1. CASE Has(s, a)
    <3>1. PICK j \in DOMAIN s : s[j] = a
      BY <2>1 DEF Has
    <3> QED
      BY <1>1, <1>3, <3>1
  <2>2. CASE Before(t, a, b)
    <3>1. PICK j \in 1..(i - Len(s) - 1) : t[j] = a
      BY <1>1, <1>3, <2>2 DEF Before
    <3>2. j \in DOMAIN t /\ Len(s) + j \in 1..(i - 1)
      BY <1>1, <1>3
    <3> QED
      BY <1>1, <3>1, <3>2
  <2> QED
    BY <2>1, <2>2
<1> QED
  BY <1>1, <1>2, <1>3

LEMMA ConcatNotAfter ==
  ASSUME NEW S, NEW s \in Seq(S), NEW t \in Seq(S), NEW a, NEW b,
         NotAfter(s, a, b), NotAfter(t, a, b), ~Has(s, a) \/ ~Has(t, b)
  PROVE  NotAfter(s \o t, a, b)
<1> DEFINE st == s \o t
<1>1. /\ Len(s) \in Nat /\ DOMAIN s = 1..Len(s) /\ DOMAIN t = 1..Len(t) /\ Len(t) \in Nat
      /\ \A i \in DOMAIN st : \/ i \in DOMAIN s /\ st[i] = s[i]
                              \/ i > Len(s) /\ i - Len(s) \in DOMAIN t /\ st[i] = t[i - Len(s)]
      /\ DOMAIN st = 1..(Len(s) + Len(t))
  BY ConcatParts
<1> HIDE DEF st
<1> SUFFICES ASSUME NEW i \in DOMAIN st, NEW j \in DOMAIN st, st[i] = a, st[j] = b PROVE j <= i
  BY DEF NotAfter, st
<1>2. CASE i \in DOMAIN s /\ st[i] = s[i]
  BY <1>1, <1>2 DEF NotAfter, Has
<1>3. CASE i > Len(s) /\ i - Len(s) \in DOMAIN t /\ st[i] = t[i - Len(s)]
  BY <1>1, <1>3 DEF NotAfter, Has
<1> QED
  BY <1>1, <1>2, <1>3

(* What does not occur is not preceded by anything and comes after nothing. *)
LEMMA Absentee ==
  ASSUME NEW s, NEW a, NEW b, ~Has(s, b)
  PROVE  Before(s, a, b) /\ NotAfter(s, a, b) /\ NotAfter(s, b, a)
  BY DEF Has, Before, NotAfter

(* A finite set as a sequence: all its elements and nothing else.          *)
LEMMA SetAsSeq ==
  ASSUME NEW S, IsFiniteSet(S)
  PROVE  SetToSeq(S) \in Seq(S) /\ \A x : Has(SetToSeq(S), x) <=> x \in S
<1> DEFINE n == Cardinality(S)
           f == SetToSeq(S)
<1>1. n \in Nat /\ ExistsBijection(1..n, S)
  BY FS_CardinalityType
<1>2. \E g \in [1..n -> S] : IsInjective(g)
  BY <1>1 DEF ExistsBijection, Bijection, Injection
<1>3. f \in [1..n -> S] /\ IsInjective(f)
  BY <1>2 DEF SetToSeq
<1>4. IsFiniteSet(1..n) /\ Cardinality(1..n) = n
  BY <1>1, FS_Interval
<1>5. f \in Surjection(1..n, S)
  <2>1. f \in Injection(1..n, S)
    BY <1>3 DEF Injection
  <2> QED
    BY <1>4, <2>1, FS_Injection
<1>6. f \in Seq(S) /\ DOMAIN f = 1..n
  BY <1>1, <1>3
<1> HIDE DEF n, f
<1>7. \A x : Has(f, x) <=> x \in S
  BY <1>3, <1>5, <1>6 DEF Has, Surjection
<1> QED
  BY <1>6, <1>7 DEF f

(* A pass over a sequence of objects.                                      *)
LEMMA PassOver ==
  ASSUME NEW objects \in Seq(Objects), NEW pass \in Passes
  PROVE  /\ EachIn(pass, objects) \in Seq(Instructions)
         /\ \A p, o : Has(EachIn(pass, objects), <<p, o>>) <=> p = pass /\ Has(objects, o)
<1>1. Len(objects) \in Nat /\ DOMAIN objects = 1..Len(objects)
  BY LenProperties
<1>2. \A i \in DOMAIN objects : <<pass, objects[i]>> \in Instructions
  BY <1>1, ElementOfSeq DEF Instructions
<1>3. EachIn(pass, objects) \in Seq(Instructions)
  BY <1>1, <1>2 DEF EachIn
<1>4. \A p, o : Has(EachIn(pass, objects), <<p, o>>) <=> p = pass /\ Has(objects, o)
  BY <1>1 DEF Has, EachIn
<1> QED
  BY <1>3, <1>4

-----------------------------------------------------------------------------
(* The program of an upgrade.                                              *)

LEMMA PagesOf ==
  ASSUME NEW k \in Kinds
  PROVE  /\ OtherPages(k) \in Seq(Objects)
         /\ \A o : Has(OtherPages(k), o) <=> o \in Others \cap Declared(k)
         /\ SourceList \in Seq(Objects)
         /\ \A o : Has(SourceList, o) <=> o \in Sources
<1>1. IsFiniteSet(Others \cap Declared(k)) /\ IsFiniteSet(Sources)
  BY FS_Intersection
<1>2. Others \cap Declared(k) \subseteq Objects /\ Sources \subseteq Objects
  BY DEF Objects
<1>3. \A T : T \subseteq Objects => Seq(T) \subseteq Seq(Objects)
  BY SeqMonotonic
<1> QED
  BY <1>1, <1>2, <1>3, SetAsSeq DEF OtherPages, SourceList

(* A plan reads the marker first, and every page and source.               *)
LEMMA ReadsOf ==
  ASSUME NEW k \in Kinds
  PROVE  /\ PlanReads(k) \in Seq(Objects)
         /\ 1 \in DOMAIN PlanReads(k) /\ PlanReads(k)[1] = "marker"
         /\ \A o \in Sources : Has(PlanReads(k), o)
<1> DEFINE A == <<"marker", "entry">>
           B == A \o SourceList
           C == B \o OtherPages(k)
<1>1. A \in Seq(Objects) /\ 1 \in DOMAIN A /\ A[1] = "marker"
  BY DEF Objects
<1>2. Control \in Seq(Objects)
  BY DEF Control, Objects
<1> HIDE DEF A
<1>3. /\ B \in Seq(Objects) /\ 1 \in DOMAIN B /\ B[1] = "marker"
      /\ \A o \in Sources : Has(B, o)
  <2>1. B \in Seq(Objects) /\ 1 \in DOMAIN B /\ B[1] = "marker"
    BY <1>1, PagesOf, ConcatParts
  <2>2. \A o : Has(B, o) <=> Has(A, o) \/ Has(SourceList, o)
    BY <1>1, PagesOf, ConcatHas
  <2> QED
    BY <2>1, <2>2, PagesOf
<1> HIDE DEF B
<1>4. /\ C \in Seq(Objects) /\ 1 \in DOMAIN C /\ C[1] = "marker"
      /\ \A o \in Sources : Has(C, o)
  <2>1. C \in Seq(Objects) /\ 1 \in DOMAIN C /\ C[1] = "marker"
    BY <1>3, PagesOf, ConcatParts
  <2>2. \A o : Has(C, o) <=> Has(B, o) \/ Has(OtherPages(k), o)
    BY <1>3, PagesOf, ConcatHas
  <2> QED
    BY <1>3, <2>1, <2>2
<1>5. PlanReads(k) = C \o Control
  BY DEF PlanReads, A, B, C
<1> HIDE DEF C
<1>6. C \o Control \in Seq(Objects) /\ 1 \in DOMAIN (C \o Control) /\ (C \o Control)[1] = "marker"
  BY <1>2, <1>4, ConcatParts
<1>7. \A o : Has(C \o Control, o) <=> Has(C, o) \/ Has(Control, o)
  BY <1>2, <1>4, ConcatHas
<1> QED
  BY <1>4, <1>5, <1>6, <1>7

(* An upgrade puts the marker before any page, verifies every other page   *)
(* before it puts the entry page, and puts nothing else.                   *)
LEMMA ExecutionOrder ==
  ASSUME NEW k \in Kinds
  PROVE  /\ Execution(k) \in Seq(Instructions)
         /\ \A p \in {"plan", "fresh", "decide"} : \A o : ~Has(Execution(k), <<p, o>>)
         /\ Has(Execution(k), <<"put", "marker">>)
         /\ \A o : Has(Execution(k), <<"put", o>>) => o \in {"marker"} \cup Pages
         /\ \A o : o # "marker" => Before(Execution(k), <<"put", "marker">>, <<"put", o>>)
         /\ \A o \in Others \cap Declared(k) : Before(Execution(k), <<"new", o>>, <<"put", "entry">>)
<1> DEFINE Spooled == EachIn("spool", <<"entry">> \o SourceList \o OtherPages(k))
           Sound == EachIn("same", SourceList)
           Claim == <<<<"put", "marker">>>>
           Written == EachIn("put", OtherPages(k))
           Verified == EachIn("new", OtherPages(k))
           Held == <<<<"new", "marker">>>>
           Opened == <<<<"put", "entry">>, <<"new", "entry">>>>
           Kept == EachIn("same", Control)
           S2 == Spooled \o Sound
           S3 == S2 \o Claim
           S4 == S3 \o Written
           S5 == S4 \o Verified
           S6 == S5 \o Held
           S7 == S6 \o Verified
           S8 == S7 \o Opened
           S9 == S8 \o Sound
<1>1. /\ <<"entry">> \in Seq(Objects) /\ Control \in Seq(Objects)
      /\ SourceList \in Seq(Objects) /\ OtherPages(k) \in Seq(Objects)
  BY PagesOf DEF Objects, Control
<1>2. <<"entry">> \o SourceList \o OtherPages(k) \in Seq(Objects)
  BY <1>1, ConcatProperties
<1>3. /\ Spooled \in Seq(Instructions) /\ \A p, o : Has(Spooled, <<p, o>>) => p = "spool"
      /\ Sound \in Seq(Instructions) /\ \A p, o : Has(Sound, <<p, o>>) => p = "same"
      /\ Written \in Seq(Instructions)
      /\ \A p, o : Has(Written, <<p, o>>) <=> p = "put" /\ o \in Others \cap Declared(k)
      /\ Verified \in Seq(Instructions)
      /\ \A p, o : Has(Verified, <<p, o>>) <=> p = "new" /\ o \in Others \cap Declared(k)
      /\ Kept \in Seq(Instructions) /\ \A p, o : Has(Kept, <<p, o>>) => p = "same"
  <2>1. "spool" \in Passes /\ "same" \in Passes /\ "put" \in Passes /\ "new" \in Passes
    BY DEF Passes
  <2>2. Spooled \in Seq(Instructions) /\ \A p, o : Has(Spooled, <<p, o>>) => p = "spool"
    BY <1>2, <2>1, PassOver
  <2>3. Sound \in Seq(Instructions) /\ \A p, o : Has(Sound, <<p, o>>) => p = "same"
    BY <1>1, <2>1, PassOver
  <2>4. /\ Written \in Seq(Instructions)
        /\ \A p, o : Has(Written, <<p, o>>) <=> p = "put" /\ o \in Others \cap Declared(k)
    BY <1>1, <2>1, PassOver, PagesOf
  <2>5. /\ Verified \in Seq(Instructions)
        /\ \A p, o : Has(Verified, <<p, o>>) <=> p = "new" /\ o \in Others \cap Declared(k)
    BY <1>1, <2>1, PassOver, PagesOf
  <2>6. Kept \in Seq(Instructions) /\ \A p, o : Has(Kept, <<p, o>>) => p = "same"
    BY <1>1, <2>1, PassOver
  <2> QED
    BY <2>2, <2>3, <2>4, <2>5, <2>6
<1>4. /\ Claim \in Seq(Instructions) /\ Held \in Seq(Instructions) /\ Opened \in Seq(Instructions)
      /\ \A p, o : Has(Claim, <<p, o>>) <=> p = "put" /\ o = "marker"
      /\ \A p, o : Has(Held, <<p, o>>) <=> p = "new" /\ o = "marker"
      /\ \A p, o : Has(Opened, <<p, o>>) <=> p \in {"put", "new"} /\ o = "entry"
  BY DEF Instructions, Passes, Objects, Has
<1>5. Execution(k) = S9 \o Kept
  BY DEF Execution
<1> HIDE DEF Spooled, Sound, Claim, Written, Verified, Held, Opened, Kept
<1>6. /\ S2 \in Seq(Instructions)
      /\ \A p, o : Has(S2, <<p, o>>) => p \in {"spool", "same"}
  <2>1. S2 \in Seq(Instructions) /\ \A a : Has(S2, a) <=> Has(Spooled, a) \/ Has(Sound, a)
    BY <1>3, ConcatParts, ConcatHas
  <2> QED
    BY <1>3, <2>1
<1> HIDE DEF S2
<1>7. /\ S3 \in Seq(Instructions)
      /\ \A p, o : Has(S3, <<p, o>>) => p \in {"spool", "same"} \/ (p = "put" /\ o = "marker")
      /\ Has(S3, <<"put", "marker">>)
      /\ \A o : o # "marker" => Before(S3, <<"put", "marker">>, <<"put", o>>)
  <2>1. S3 \in Seq(Instructions) /\ \A a : Has(S3, a) <=> Has(S2, a) \/ Has(Claim, a)
    BY <1>4, <1>6, ConcatParts, ConcatHas
  <2>2. \A p, o : Has(S3, <<p, o>>) => p \in {"spool", "same"} \/ (p = "put" /\ o = "marker")
    BY <1>4, <1>6, <2>1
  <2>3. \A o : o # "marker" => ~Has(S3, <<"put", o>>)
    BY <2>2
  <2> QED
    BY <1>4, <2>1, <2>2, <2>3, Absentee
<1> HIDE DEF S3
<1>8. /\ S4 \in Seq(Instructions)
      /\ \A p, o : Has(S4, <<p, o>>) => p \in {"spool", "same"} \/ (p = "put" /\ o \in {"marker"} \cup Others)
      /\ Has(S4, <<"put", "marker">>)
      /\ \A o : o # "marker" => Before(S4, <<"put", "marker">>, <<"put", o>>)
  <2>1. S4 \in Seq(Instructions) /\ \A a : Has(S4, a) <=> Has(S3, a) \/ Has(Written, a)
    BY <1>3, <1>7, ConcatParts, ConcatHas
  <2>2. \A o : o # "marker" => Before(S4, <<"put", "marker">>, <<"put", o>>)
    BY <1>3, <1>7, ConcatBefore
  <2> QED
    BY <1>3, <1>7, <2>1, <2>2
<1> HIDE DEF S4
<1>9. /\ S5 \in Seq(Instructions)
      /\ \A p, o : Has(S5, <<p, o>>) => p \in {"spool", "same", "new"} \/ (p = "put" /\ o \in {"marker"} \cup Others)
      /\ Has(S5, <<"put", "marker">>)
      /\ \A o \in Others \cap Declared(k) : Has(S5, <<"new", o>>)
      /\ \A o : o # "marker" => Before(S5, <<"put", "marker">>, <<"put", o>>)
  <2>1. S5 \in Seq(Instructions) /\ \A a : Has(S5, a) <=> Has(S4, a) \/ Has(Verified, a)
    BY <1>3, <1>8, ConcatParts, ConcatHas
  <2> QED
    BY <1>3, <1>8, <2>1, ConcatBefore
<1> HIDE DEF S5
<1>10. /\ S6 \in Seq(Instructions)
       /\ \A p, o : Has(S6, <<p, o>>) => p \in {"spool", "same", "new"} \/ (p = "put" /\ o \in {"marker"} \cup Others)
       /\ Has(S6, <<"put", "marker">>)
       /\ \A o \in Others \cap Declared(k) : Has(S6, <<"new", o>>)
       /\ \A o : o # "marker" => Before(S6, <<"put", "marker">>, <<"put", o>>)
  <2>1. S6 \in Seq(Instructions) /\ \A a : Has(S6, a) <=> Has(S5, a) \/ Has(Held, a)
    BY <1>4, <1>9, ConcatParts, ConcatHas
  <2> QED
    BY <1>4, <1>9, <2>1, ConcatBefore
<1> HIDE DEF S6
<1>11. /\ S7 \in Seq(Instructions)
       /\ \A p, o : Has(S7, <<p, o>>) => p \in {"spool", "same", "new"} \/ (p = "put" /\ o \in {"marker"} \cup Others)
       /\ Has(S7, <<"put", "marker">>)
       /\ \A o \in Others \cap Declared(k) : Has(S7, <<"new", o>>)
       /\ \A o : o # "marker" => Before(S7, <<"put", "marker">>, <<"put", o>>)
       /\ \A o : Before(S7, o, <<"put", "entry">>)
  <2>1. S7 \in Seq(Instructions) /\ \A a : Has(S7, a) <=> Has(S6, a) \/ Has(Verified, a)
    BY <1>3, <1>10, ConcatParts, ConcatHas
  <2>2. \A p, o : Has(S7, <<p, o>>) => p \in {"spool", "same", "new"} \/ (p = "put" /\ o \in {"marker"} \cup Others)
    BY <1>3, <1>10, <2>1
  <2>3. ~Has(S7, <<"put", "entry">>)
    BY <2>2
  <2> QED
    BY <1>3, <1>10, <2>1, <2>2, <2>3, Absentee, ConcatBefore
<1> HIDE DEF S7
<1>12. /\ S8 \in Seq(Instructions)
       /\ \A p, o : Has(S8, <<p, o>>) => p \in {"spool", "same", "new"} \/ (p = "put" /\ o \in {"marker"} \cup Pages)
       /\ Has(S8, <<"put", "marker">>)
       /\ \A o \in Others \cap Declared(k) : Has(S8, <<"new", o>>)
       /\ \A o : o # "marker" => Before(S8, <<"put", "marker">>, <<"put", o>>)
       /\ \A o \in Others \cap Declared(k) : Before(S8, <<"new", o>>, <<"put", "entry">>)
  <2>1. S8 \in Seq(Instructions) /\ \A a : Has(S8, a) <=> Has(S7, a) \/ Has(Opened, a)
    BY <1>4, <1>11, ConcatParts, ConcatHas
  <2> QED
    BY <1>4, <1>11, <2>1, ConcatBefore DEF Pages
<1> HIDE DEF S8
<1>13. /\ S9 \in Seq(Instructions)
       /\ \A p, o : Has(S9, <<p, o>>) => p \in {"spool", "same", "new"} \/ (p = "put" /\ o \in {"marker"} \cup Pages)
       /\ Has(S9, <<"put", "marker">>)
       /\ \A o \in Others \cap Declared(k) : Has(S9, <<"new", o>>)
       /\ \A o : o # "marker" => Before(S9, <<"put", "marker">>, <<"put", o>>)
       /\ \A o \in Others \cap Declared(k) : Before(S9, <<"new", o>>, <<"put", "entry">>)
  <2>1. S9 \in Seq(Instructions) /\ \A a : Has(S9, a) <=> Has(S8, a) \/ Has(Sound, a)
    BY <1>3, <1>12, ConcatParts, ConcatHas
  <2>2. \A o : o # "marker" => Before(S9, <<"put", "marker">>, <<"put", o>>)
    BY <1>3, <1>12, ConcatBefore
  <2>3. \A o \in Others \cap Declared(k) : Before(S9, <<"new", o>>, <<"put", "entry">>)
    BY <1>3, <1>12, ConcatBefore
  <2> QED
    BY <1>3, <1>12, <2>1, <2>2, <2>3
<1> HIDE DEF S9
<1>14. S9 \o Kept \in Seq(Instructions) /\ \A a : Has(S9 \o Kept, a) <=> Has(S9, a) \/ Has(Kept, a)
  BY <1>3, <1>13, ConcatParts, ConcatHas
<1>15. \A o : o # "marker" => Before(S9 \o Kept, <<"put", "marker">>, <<"put", o>>)
  BY <1>3, <1>13, ConcatBefore
<1>16. \A o \in Others \cap Declared(k) : Before(S9 \o Kept, <<"new", o>>, <<"put", "entry">>)
  BY <1>3, <1>13, ConcatBefore
<1> QED
  BY <1>3, <1>5, <1>13, <1>14, <1>15, <1>16

(* The order of a whole upgrade: plan, plan afresh, decide, execute.       *)
LEMMA ProgramOrder ==
  ASSUME NEW k \in Kinds
  PROVE  /\ Programs[k] \in Seq(Instructions)
         /\ 1 \in DOMAIN Programs[k] /\ Programs[k][1] = <<"plan", "marker">>
         /\ Has(Programs[k], <<"put", "marker">>)
         /\ \A o : Has(Programs[k], <<"decide", o>>) => o = "marker"
         /\ \A o : Has(Programs[k], <<"put", o>>) => o \in {"marker"} \cup Pages
         /\ \A o : NotAfter(Programs[k], <<"fresh", "marker">>, <<"plan", o>>)
         /\ Before(Programs[k], <<"fresh", "marker">>, <<"decide", "marker">>)
         /\ \A o : NotAfter(Programs[k], <<"decide", "marker">>, <<"fresh", o>>)
         /\ \A o : Before(Programs[k], <<"fresh", "marker">>, <<"put", o>>)
         /\ \A o : Before(Programs[k], <<"decide", "marker">>, <<"put", o>>)
         /\ \A s \in Sources : \A o : Before(Programs[k], <<"fresh", s>>, <<"put", o>>)
         /\ \A o : o # "marker" => Before(Programs[k], <<"put", "marker">>, <<"put", o>>)
         /\ \A o \in Others \cap Declared(k) : Before(Programs[k], <<"new", o>>, <<"put", "entry">>)
<1> DEFINE P == EachIn("plan", PlanReads(k))
           F == EachIn("fresh", PlanReads(k))
           D == <<<<"decide", "marker">>>>
           E == Execution(k)
           PF == P \o F
           PFD == PF \o D
<1>1. Programs[k] = PFD \o E
  BY DEF Programs
<1>2. /\ P \in Seq(Instructions) /\ \A p, o : Has(P, <<p, o>>) => p = "plan"
      /\ 1 \in DOMAIN P /\ P[1] = <<"plan", "marker">>
  <2>1. P \in Seq(Instructions) /\ \A p, o : Has(P, <<p, o>>) => p = "plan"
    BY ReadsOf, PassOver DEF Passes
  <2> QED
    BY <2>1, ReadsOf DEF EachIn
<1>3. /\ F \in Seq(Instructions) /\ \A p, o : Has(F, <<p, o>>) => p = "fresh"
      /\ Has(F, <<"fresh", "marker">>) /\ \A s \in Sources : Has(F, <<"fresh", s>>)
  <2>1. /\ F \in Seq(Instructions)
        /\ \A p, o : Has(F, <<p, o>>) <=> p = "fresh" /\ Has(PlanReads(k), o)
    BY ReadsOf, PassOver DEF Passes
  <2>2. Has(PlanReads(k), "marker")
    BY ReadsOf DEF Has
  <2> QED
    BY <2>1, <2>2, ReadsOf
<1>4. D \in Seq(Instructions) /\ \A p, o : Has(D, <<p, o>>) <=> p = "decide" /\ o = "marker"
  BY DEF Instructions, Passes, Objects, Has
<1>5. /\ E \in Seq(Instructions)
      /\ \A p \in {"plan", "fresh", "decide"} : \A o : ~Has(E, <<p, o>>)
      /\ Has(E, <<"put", "marker">>)
      /\ \A o : Has(E, <<"put", o>>) => o \in {"marker"} \cup Pages
      /\ \A o : o # "marker" => Before(E, <<"put", "marker">>, <<"put", o>>)
      /\ \A o \in Others \cap Declared(k) : Before(E, <<"new", o>>, <<"put", "entry">>)
  BY ExecutionOrder
<1> HIDE DEF P, F, D, E
<1>6. /\ PF \in Seq(Instructions) /\ \A a : Has(PF, a) <=> Has(P, a) \/ Has(F, a)
      /\ 1 \in DOMAIN PF /\ PF[1] = <<"plan", "marker">>
  <2>1. PF \in Seq(Instructions) /\ \A a : Has(PF, a) <=> Has(P, a) \/ Has(F, a)
    BY <1>2, <1>3, ConcatParts, ConcatHas
  <2>2. 1 \in DOMAIN PF /\ PF[1] = <<"plan", "marker">>
    BY <1>2, <1>3, ConcatParts
  <2> QED
    BY <2>1, <2>2
<1>7. \A o : NotAfter(PF, <<"fresh", "marker">>, <<"plan", o>>)
  <2> TAKE o
  <2>1. ~Has(P, <<"fresh", "marker">>) /\ ~Has(F, <<"plan", o>>)
    BY <1>2, <1>3
  <2> QED
    BY <1>2, <1>3, <2>1, Absentee, ConcatNotAfter
<1>8. \A p, o : Has(PF, <<p, o>>) => p \in {"plan", "fresh"}
  BY <1>2, <1>3, <1>6
<1>9. Has(PF, <<"fresh", "marker">>) /\ \A s \in Sources : Has(PF, <<"fresh", s>>)
  BY <1>3, <1>6
<1> HIDE DEF PF
<1>10. /\ PFD \in Seq(Instructions) /\ \A a : Has(PFD, a) <=> Has(PF, a) \/ Has(D, a)
       /\ 1 \in DOMAIN PFD /\ PFD[1] = <<"plan", "marker">>
  <2>1. PFD \in Seq(Instructions) /\ \A a : Has(PFD, a) <=> Has(PF, a) \/ Has(D, a)
    BY <1>4, <1>6, ConcatParts, ConcatHas
  <2>2. 1 \in DOMAIN PFD /\ PFD[1] = <<"plan", "marker">>
    BY <1>4, <1>6, ConcatParts
  <2> QED
    BY <2>1, <2>2
<1>11. \A p, o : Has(PFD, <<p, o>>) => p \in {"plan", "fresh"} \/ (p = "decide" /\ o = "marker")
  BY <1>4, <1>8, <1>10
<1>12. /\ Has(PFD, <<"fresh", "marker">>) /\ Has(PFD, <<"decide", "marker">>)
       /\ \A s \in Sources : Has(PFD, <<"fresh", s>>)
  BY <1>4, <1>9, <1>10
<1>13. \A o : NotAfter(PFD, <<"fresh", "marker">>, <<"plan", o>>)
  <2> TAKE o
  <2>1. ~Has(D, <<"fresh", "marker">>) /\ ~Has(D, <<"plan", o>>)
    BY <1>4
  <2> QED
    BY <1>4, <1>6, <1>7, <2>1, Absentee, ConcatNotAfter
<1>14. Before(PFD, <<"fresh", "marker">>, <<"decide", "marker">>)
  <2>1. ~Has(PF, <<"decide", "marker">>)
    BY <1>8
  <2> QED
    BY <1>4, <1>6, <1>9, <2>1, Absentee, ConcatBefore
<1>15. \A o : NotAfter(PFD, <<"decide", "marker">>, <<"fresh", o>>)
  <2> TAKE o
  <2>1. ~Has(PF, <<"decide", "marker">>) /\ ~Has(D, <<"fresh", o>>)
    BY <1>4, <1>8
  <2> QED
    BY <1>4, <1>6, <2>1, Absentee, ConcatNotAfter
<1>16. \A a, o : Before(PFD, a, <<"put", o>>)
  <2> TAKE a, o
  <2>1. ~Has(PFD, <<"put", o>>)
    BY <1>11
  <2> QED
    BY <2>1, Absentee
<1> HIDE DEF PFD
<1> DEFINE All == PFD \o E
<1>17. /\ All \in Seq(Instructions) /\ \A a : Has(All, a) <=> Has(PFD, a) \/ Has(E, a)
       /\ 1 \in DOMAIN All /\ All[1] = <<"plan", "marker">>
  <2>1. All \in Seq(Instructions) /\ \A a : Has(All, a) <=> Has(PFD, a) \/ Has(E, a)
    BY <1>5, <1>10, ConcatParts, ConcatHas
  <2>2. 1 \in DOMAIN All /\ All[1] = <<"plan", "marker">>
    BY <1>5, <1>10, ConcatParts
  <2> QED
    BY <2>1, <2>2
<1>18. /\ Has(All, <<"put", "marker">>)
       /\ \A o : Has(All, <<"decide", o>>) => o = "marker"
       /\ \A o : Has(All, <<"put", o>>) => o \in {"marker"} \cup Pages
  BY <1>5, <1>11, <1>17
<1>19. \A o : NotAfter(All, <<"fresh", "marker">>, <<"plan", o>>)
  <2> TAKE o
  <2>1. ~Has(E, <<"fresh", "marker">>) /\ ~Has(E, <<"plan", o>>)
    BY <1>5
  <2> QED
    BY <1>5, <1>10, <1>13, <2>1, Absentee, ConcatNotAfter
<1>20. Before(All, <<"fresh", "marker">>, <<"decide", "marker">>)
  BY <1>5, <1>10, <1>12, <1>14, ConcatBefore
<1>21. \A o : NotAfter(All, <<"decide", "marker">>, <<"fresh", o>>)
  <2> TAKE o
  <2>1. ~Has(E, <<"decide", "marker">>) /\ ~Has(E, <<"fresh", o>>)
    BY <1>5
  <2> QED
    BY <1>5, <1>10, <1>15, <2>1, Absentee, ConcatNotAfter
<1>22. \A o : /\ Before(All, <<"fresh", "marker">>, <<"put", o>>)
              /\ Before(All, <<"decide", "marker">>, <<"put", o>>)
  BY <1>5, <1>10, <1>12, <1>16, ConcatBefore
<1>23. \A s \in Sources : \A o : Before(All, <<"fresh", s>>, <<"put", o>>)
  BY <1>5, <1>10, <1>12, <1>16, ConcatBefore
<1>24. \A o : o # "marker" => Before(All, <<"put", "marker">>, <<"put", o>>)
  BY <1>5, <1>10, <1>16, ConcatBefore
<1>25. \A o \in Others \cap Declared(k) : Before(All, <<"new", o>>, <<"put", "entry">>)
  BY <1>5, <1>10, <1>16, ConcatBefore
<1> QED
  BY <1>1, <1>17, <1>18, <1>19, <1>20, <1>21, <1>22, <1>23, <1>24, <1>25

-----------------------------------------------------------------------------
(* The inductive invariant.                                                *)

UploadStates  == [step : {"idle", "payload", "done", "stopped"}, todo : SUBSET Payload]
UpgradeStates == [pc : Nat, plan : [Objects -> Nat], fresh : [Objects -> Nat]]
DeleteStates  == [step : {"idle", "planned", "list", "reserve", "payload"}, listing : SUBSET Objects]
GuardStates   == {"idle", "protect", "unprotect"}

Types ==
  /\ kind \in Kinds
  /\ store \in [Objects -> Nat] /\ store["versions"] \in {0, Reservation, History}
  /\ up \in [Uploaders -> UploadStates]
  /\ upg \in [Upgraders -> UpgradeStates]
  /\ \A u \in Upgraders : upg[u].pc \in 0..(Len(Program) + 1)
  /\ del \in [Deleters -> DeleteStates]
  /\ grd \in [Guards -> GuardStates]
  /\ faults \in 0..MaxFaults /\ lost \in 0..MaxLost

(* Before the upload claims its directory there is nothing in it, and      *)
(* nobody gets further with it than to look for the marker.                *)
NothingYet ==
  ~Claimed => /\ \A o \in Objects : store[o] = 0
              /\ \A u \in Upgraders : upg[u].pc <= 1
              /\ \A x \in Deleters : del[x].step = "idle"
              /\ \A g \in Guards : grd[g] = "idle"

(* The instructions an upgrade at pc has behind it.                        *)
Behind(k, pc, pass, o) == \E i \in 1..(pc - 1) : Programs[k][i] = <<pass, o>>

(* What an upgrade in state m to release r knows of a document of kind k   *)
(* while its marker is that of release now: the pages it planned are of no *)
(* newer generation than the marker; the marker it planned afresh is of no *)
(* newer generation than its own, and of none older than the pages of the  *)
(* first plan; once both plans are found equal, this holds of the pages of *)
(* the fresh one; and once it has put the marker, the marker stays at its  *)
(* generation or a newer one.                                              *)
Knows(k, now, m, r) ==
  /\ m.pc <= 1 => m.plan = Nothing
  /\ \A p \in Pages : now = 0 \/ Gen(m.plan[p]) <= Gen(now)
  /\ Behind(k, m.pc, "fresh", "marker") =>
       /\ 1 <= m.fresh["marker"] /\ Gen(m.fresh["marker"]) <= Gen(r)
       /\ now = 0 \/ Gen(m.fresh["marker"]) <= Gen(now)
       /\ \A p \in Pages : Gen(m.plan[p]) <= Gen(m.fresh["marker"])
  /\ Behind(k, m.pc, "decide", "marker") => \A p \in Pages : Gen(m.fresh[p]) <= Gen(r)
  /\ Behind(k, m.pc, "put", "marker") => now = 0 \/ Gen(r) <= Gen(now)

(* The upload goes on putting its pages after others upgraded the marker.  *)
OriginalFirst == Claimed /\ store["marker"] # 0 => Gen(Original) <= Gen(store["marker"])

UploadOK(c) == up[c].step = "payload" => up[c].todo \subseteq Declared(kind) \ {"entry"}

Inv ==
  /\ Types
  /\ NothingYet
  /\ OriginalFirst
  /\ PagesBehindMarker
  /\ \A c \in Uploaders : UploadOK(c)
  /\ \A u \in Upgraders : Knows(kind, store["marker"], upg[u], Release[u])

(* A history keeps every deletion of a document out, and a document that   *)
(* is being deleted never gets one.                                        *)
HistoryInv ==
  /\ store["versions"] = History => SourceBacked
  /\ \A x \in Deleters : del[x].step = "payload" /\ SourceBacked => store["versions"] = Reservation

(* What deletions rely on where nothing is uploaded or upgraded meanwhile: *)
(* what is there of the payload was listed, so nothing is left without the *)
(* marker.                                                                 *)
CleanInv ==
  /\ \A x \in Deleters : del[x].step \in {"reserve", "payload"} =>
       \A o \in Payload : store[o] # 0 => o \in del[x].listing
  /\ store["marker"] = 0 => \A o \in Payload : store[o] = 0

(* What shows that only whole documents are shown, where nothing is        *)
(* deleted.                                                                *)
There(o) == store[o] # 0 \/ lost > 0
ShowInv ==
  /\ \A c \in Uploaders : up[c].step = "payload" =>
       \A o \in Declared(kind) \ {"entry"} : o \in up[c].todo \/ There(o)
  /\ Claimed => store["marker"] # 0
  /\ \A u \in Upgraders :
       /\ \A s \in Sources : Behind(kind, upg[u].pc, "fresh", s) => store[s] # 0
       /\ \A p \in Others : Behind(kind, upg[u].pc, "new", p) => There(p)

-----------------------------------------------------------------------------
(* Releases and their generations.                                         *)

LEMMA ReleaseFacts ==
  /\ Original \in Nat \ {0}
  /\ \A u \in Upgraders : Release[u] \in Releases /\ Release[u] \in Nat \ {0}
  BY ReleaseAssumption

(* What is put has a generation, that of the release that puts it if it is *)
(* the marker or a page; nothing has the lowest.                           *)
LEMMA GenFacts ==
  /\ \A n : Gen(n) \in Nat
  /\ Gen(0) = 0
  BY ReleaseAssumption DEF Gen

LEMMA ContentFacts ==
  ASSUME NEW r \in Releases, NEW o
  PROVE  /\ Content(r, o) \in Nat \ {0}
         /\ o \in {"marker"} \cup Pages => Gen(Content(r, o)) = Gen(r)
         /\ o = "marker" => Content(r, o) = r
<1>1. /\ r \in Nat \ {0} /\ Rendering[r] \in Releases /\ Rendering[r] \in Nat \ {0}
      /\ Generation[Rendering[r]] = Generation[r]
  BY ReleaseAssumption
<1>5. "marker" \notin Pages
  BY ObjectsAssumption DEF Pages
<1>2. CASE o = "marker"
  <2>1. Content(r, o) = r
    BY <1>2, <1>5 DEF Content
  <2> QED
    BY <1>1, <2>1
<1>3. CASE o # "marker" /\ o \in Pages
  <2>1. Content(r, o) = Rendering[r]
    BY <1>3 DEF Content
  <2> QED
    BY <1>1, <1>3, <2>1 DEF Gen
<1>4. CASE o # "marker" /\ o \notin Pages
  BY <1>4 DEF Content
<1> QED
  BY <1>2, <1>3, <1>4

LEMMA UploadPuts ==
  /\ \A o \in Objects : Content(Original, o) \in Nat \ {0} /\ Content(Original, o) # 0
  /\ \A o \in {"marker"} \cup Pages : Gen(Content(Original, o)) = Gen(Original)
<1>1. ASSUME NEW o
      PROVE  /\ Content(Original, o) \in Nat \ {0}
             /\ o \in {"marker"} \cup Pages => Gen(Content(Original, o)) = Gen(Original)
  BY ReleaseAssumption, ContentFacts
<1> QED
  BY <1>1

(* What is there when nothing has happened yet.                            *)
LEMMA InitStore ==
  ASSUME Init
  PROVE  /\ store \in [Objects -> Nat]
         /\ \A o \in Objects :
              \/ Uploaders = {} /\ o \in {"marker"} \cup Declared(kind)
                 /\ store[o] = Content(Original, o) /\ store[o] # 0
              \/ ~(Uploaders = {} /\ o \in {"marker"} \cup Declared(kind)) /\ store[o] = 0
<1>1. \A o \in Objects :
        store[o] = IF Uploaders = {} /\ o \in {"marker"} \cup Declared(kind)
                   THEN Content(Original, o) ELSE 0
  BY DEF Init
<1>2. store = [o \in Objects |-> store[o]]
  BY DEF Init
<1>3. \A o \in Objects : store[o] \in Nat
  BY <1>1, UploadPuts
<1> QED
  BY <1>1, <1>2, <1>3, UploadPuts

LEMMA UpgradePuts ==
  ASSUME NEW u \in Upgraders, NEW o
  PROVE  Content(Release[u], o) \in Nat \ {0}
  BY ReleaseFacts, ContentFacts

-----------------------------------------------------------------------------
(* What an upgrade knows.                                                  *)

LEMMA BehindNext ==
  ASSUME NEW k \in Kinds, NEW pc \in Nat \ {0}, NEW pass, NEW o
  PROVE  Behind(k, pc + 1, pass, o) <=> Behind(k, pc, pass, o) \/ Programs[k][pc] = <<pass, o>>
  BY DEF Behind

LEMMA BehindNothing ==
  ASSUME NEW k \in Kinds, NEW pc \in Nat, pc <= 1, NEW pass, NEW o
  PROVE  ~Behind(k, pc, pass, o)
  BY DEF Behind

(* It goes on holding while the marker's generation does not go back, or   *)
(* the marker goes.                                                        *)
LEMMA KnowsOnward ==
  ASSUME NEW k \in Kinds, NEW now \in Nat, NEW later \in Nat, NEW m \in UpgradeStates,
         NEW r \in Nat \ {0}, Knows(k, now, m, r),
         m.pc <= 1 \/ later = 0 \/ (now # 0 /\ Gen(now) <= Gen(later))
  PROVE  Knows(k, later, m, r)
<1> USE DEF UpgradeStates
<1>1. CASE m.pc <= 1
  <2>1. \A p \in Pages : m.plan[p] = 0
    BY <1>1 DEF Knows, Nothing, Pages, Objects
  <2> QED
    BY <1>1, <2>1, BehindNothing, GenFacts DEF Knows
<1>2. CASE later = 0
  BY <1>2 DEF Knows
<1>3. CASE now # 0 /\ Gen(now) <= Gen(later)
  BY <1>3, GenFacts DEF Knows
<1> QED
  BY <1>1, <1>2, <1>3

(* An upgrade that begins, or begins again, knows nothing.                 *)
LEMMA KnowsNothing ==
  ASSUME NEW k \in Kinds, NEW now \in Nat, NEW r \in Nat \ {0}, NEW pc \in {0, 1}
  PROVE  /\ [NoUpgrade EXCEPT !.pc = pc] \in UpgradeStates
         /\ Knows(k, now, [NoUpgrade EXCEPT !.pc = pc], r)
<1>1. \A p \in Pages : p \in Objects
  BY DEF Pages, Objects
<1>2. ~Behind(k, pc, "fresh", "marker") /\ ~Behind(k, pc, "decide", "marker") /\ ~Behind(k, pc, "put", "marker")
  BY BehindNothing
<1> QED
  BY <1>1, <1>2, GenFacts DEF Knows, NoUpgrade, Nothing, UpgradeStates

(* The instruction an upgrade is at.                                       *)
LEMMA DoingOne ==
  ASSUME Inv, NEW u \in Upgraders, NEW pass, Doing(u, pass)
  PROVE  /\ upg[u].pc \in Nat \ {0} /\ upg[u].pc + 1 \in 0..(Len(Program) + 1)
         /\ upg[u].pc \in DOMAIN Programs[kind]
         /\ Programs[kind][upg[u].pc] = <<pass, Subject(u)>>
         /\ Subject(u) \in Objects
         /\ Claimed \/ (pass = "plan" /\ Subject(u) = "marker")
<1>1. kind \in Kinds /\ upg \in [Upgraders -> UpgradeStates]
  BY DEF Inv, Types
<1>2. /\ Programs[kind] \in Seq(Instructions)
      /\ Programs[kind][1] = <<"plan", "marker">>
  BY <1>1, ProgramOrder
<1>3. Len(Program) \in Nat /\ DOMAIN Program = 1..Len(Program)
  BY <1>2, LenProperties DEF Program
<1>4. upg[u].pc \in 1..Len(Program)
  BY <1>3 DEF Doing
<1>5. Programs[kind][upg[u].pc] \in Instructions
  BY <1>2, <1>4, ElementOfSeq DEF Program
<1>6. Programs[kind][upg[u].pc] = <<pass, Subject(u)>> /\ Subject(u) \in Objects
  BY <1>5 DEF Doing, Subject, Program, Instructions
<1>7. Claimed \/ (pass = "plan" /\ Subject(u) = "marker")
  <2>1. Claimed \/ upg[u].pc <= 1
    BY DEF Inv, NothingYet
  <2>2. upg[u].pc <= 1 => upg[u].pc = 1
    BY <1>4
  <2> QED
    BY <1>2, <1>6, <2>1, <2>2
<1> QED
  BY <1>3, <1>4, <1>6, <1>7 DEF Program

(* What has to be behind the instruction.                                  *)
LEMMA DoneBefore ==
  ASSUME Inv, NEW u \in Upgraders, NEW pass, Doing(u, pass), NEW first, NEW o,
         Before(Programs[kind], <<first, o>>, <<pass, Subject(u)>>)
  PROVE  Behind(kind, upg[u].pc, first, o)
  BY DoingOne DEF Before, Behind

LEMMA NotDoneBefore ==
  ASSUME Inv, NEW u \in Upgraders, NEW pass, Doing(u, pass), NEW first, NEW o,
         NotAfter(Programs[kind], <<first, o>>, <<pass, Subject(u)>>)
  PROVE  ~Behind(kind, upg[u].pc, first, o)
<1>1. DOMAIN Programs[kind] = 1..Len(Programs[kind]) /\ Len(Programs[kind]) \in Nat
  BY ProgramOrder, LenProperties DEF Inv, Types
<1>2. upg[u].pc \in DOMAIN Programs[kind] /\ Programs[kind][upg[u].pc] = <<pass, Subject(u)>>
  BY DoingOne
<1>3. \A i \in 1..(upg[u].pc - 1) : i \in DOMAIN Programs[kind] /\ ~(upg[u].pc <= i)
  BY <1>1, <1>2
<1> QED
  BY <1>2, <1>3 DEF NotAfter, Behind

(* A step of an upgrade that leaves it in state m keeps the invariant.     *)
Onward ==
  store'["marker"] = 0 \/ (store["marker"] # 0 /\ Gen(store["marker"]) <= Gen(store'["marker"]))

LEMMA UpgradeKeepsInv ==
  ASSUME Inv, NEW u \in Upgraders, NEW m \in UpgradeStates,
         UpgradeStep \/ (Fault /\ UNCHANGED <<kind, up, del, grd>>), upg' = [upg EXCEPT ![u] = m],
         m.pc \in 0..(Len(Program) + 1), Claimed \/ m.pc <= 1,
         store' \in [Objects -> Nat], store'["versions"] = store["versions"],
         Claimed \/ store' = store, Onward,
         Knows(kind, store'["marker"], m, Release[u]), PagesBehindMarker'
  PROVE  Inv'
<1> USE DEF Inv
<1>1. "marker" \in Objects /\ "versions" \in Objects
  BY DEF Objects
<1>2. /\ kind' = kind /\ up' = up /\ del' = del /\ grd' = grd /\ lost' = lost
      /\ faults' \in 0..MaxFaults
  BY FaultsAssumption DEF UpgradeStep, Fault, Types
<1>3. Program' = Program /\ Claimed' = Claimed
  BY <1>2 DEF Program, Claimed, Programs, Execution, EachIn, OtherPages, SourceList, PlanReads, Declared
<1>4. Types'
  BY <1>2, <1>3 DEF Types
<1>5. NothingYet'
  <2>1. \A v \in Upgraders : upg'[v] = IF v = u THEN m ELSE upg[v]
    BY DEF Types
  <2> QED
    BY <1>2, <1>3, <2>1 DEF NothingYet
<1>6. \A c \in Uploaders : UploadOK(c)'
  BY <1>2 DEF UploadOK
<1>7. ASSUME NEW v \in Upgraders PROVE Knows(kind, store["marker"], upg[v], Release[v])'
  <2>1. CASE v = u
    BY <1>2, <2>1 DEF Types
  <2>2. CASE v # u
    <3>1. upg'[v] = upg[v] /\ upg[v] \in UpgradeStates
      BY <2>2 DEF Types
    <3>2. store["marker"] \in Nat /\ store'["marker"] \in Nat /\ kind \in Kinds
      BY <1>1 DEF Types
    <3>3. Release[v] \in Nat \ {0}
      BY ReleaseFacts
    <3>4. Knows(kind, store'["marker"], upg[v], Release[v])
      BY <3>1, <3>2, <3>3, KnowsOnward DEF Onward
    <3> QED
      BY <1>2, <3>1, <3>4
  <2> QED
    BY <2>1, <2>2
<1>8. OriginalFirst'
  BY <1>3, GenFacts, ReleaseFacts DEF OriginalFirst, Onward
<1> QED
  BY <1>4, <1>5, <1>6, <1>7, <1>8

-----------------------------------------------------------------------------
(* The steps of an upgrade.                                                *)

LEMMA Stopping ==
  ASSUME Inv, NEW u \in Upgraders, UpgradeStep \/ (Fault /\ UNCHANGED <<kind, up, del, grd>>),
         StopUpgrade(u), store' = store
  PROVE  Inv'
<1> DEFINE m == [NoUpgrade EXCEPT !.pc = 0]
<1>1. m = NoUpgrade
  BY DEF NoUpgrade
<1>2. /\ kind \in Kinds /\ store \in [Objects -> Nat] /\ store["marker"] \in Nat
      /\ Release[u] \in Nat \ {0} /\ Len(Program) \in Nat
  BY ReleaseFacts, ProgramOrder, LenProperties DEF Inv, Types, Objects, Program
<1>3. m \in UpgradeStates /\ Knows(kind, store["marker"], m, Release[u])
  BY <1>2, KnowsNothing
<1> HIDE DEF m
<1>4. upg' = [upg EXCEPT ![u] = m] /\ m.pc \in 0..(Len(Program) + 1) /\ m.pc <= 1
  BY <1>1, <1>2 DEF StopUpgrade, NoUpgrade
<1>5. Onward /\ PagesBehindMarker'
  BY <1>2, GenFacts DEF Onward, Inv, PagesBehindMarker
<1> QED
  BY <1>2, <1>3, <1>4, <1>5, UpgradeKeepsInv

LEMMA Starting ==
  ASSUME Inv, NEW u \in Upgraders, StartUpgrade(u)
  PROVE  Inv'
<1> DEFINE m == [upg[u] EXCEPT !.pc = 1]
<1>1. /\ kind \in Kinds /\ store \in [Objects -> Nat] /\ store["marker"] \in Nat
      /\ Release[u] \in Nat \ {0} /\ Len(Program) \in Nat
  BY ReleaseFacts, ProgramOrder, LenProperties DEF Inv, Types, Objects, Program
<1>2. upg[u] \in UpgradeStates /\ upg[u].pc = 0 /\ Knows(kind, store["marker"], upg[u], Release[u])
  BY DEF Inv, Types, StartUpgrade
<1>3. m \in UpgradeStates /\ m.pc = 1 /\ m.plan = upg[u].plan
  BY <1>2 DEF UpgradeStates
<1>4. upg' = [upg EXCEPT ![u] = m] /\ UpgradeStep /\ store' = store
  BY DEF StartUpgrade
<1>5. Onward /\ PagesBehindMarker'
  BY <1>1, <1>4, GenFacts DEF Onward, Inv, PagesBehindMarker
<1>6. \A pass, o : ~Behind(kind, 1, pass, o)
  BY <1>1, BehindNothing
<1> HIDE DEF m
<1>7. Knows(kind, store["marker"], m, Release[u])
  BY <1>2, <1>3, <1>6 DEF Knows
<1>8. m.pc \in 0..(Len(Program) + 1) /\ m.pc <= 1
  BY <1>1, <1>3
<1> QED
  BY <1>1, <1>3, <1>4, <1>5, <1>7, <1>8, UpgradeKeepsInv

(* An instruction that learns nothing new.                                 *)
Next1(m) == [m EXCEPT !.pc = @ + 1]

LEMMA NextState ==
  ASSUME NEW m \in UpgradeStates
  PROVE  /\ Next1(m) \in UpgradeStates
         /\ Next1(m).pc = m.pc + 1 /\ Next1(m).plan = m.plan /\ Next1(m).fresh = m.fresh
  BY DEF UpgradeStates, Next1

LEMMA PlannedState ==
  ASSUME NEW m \in UpgradeStates, NEW plan \in [Objects -> Nat]
  PROVE  LET n == [m EXCEPT !.pc = @ + 1, !.plan = plan]
         IN  n \in UpgradeStates /\ n.pc = m.pc + 1 /\ n.plan = plan /\ n.fresh = m.fresh
<1> DEFINE n == [m EXCEPT !.pc = @ + 1, !.plan = plan]
<1>1. DOMAIN n = {"pc", "plan", "fresh"}
  BY DEF UpgradeStates
<1>2. n.pc \in Nat /\ n.plan \in [Objects -> Nat] /\ n.fresh \in [Objects -> Nat]
  BY DEF UpgradeStates
<1>3. n.pc = m.pc + 1 /\ n.plan = plan /\ n.fresh = m.fresh
  BY DEF UpgradeStates
<1>4. n \in UpgradeStates
  BY <1>1, <1>2 DEF UpgradeStates
<1> QED
  BY <1>3, <1>4

LEMMA FreshState ==
  ASSUME NEW m \in UpgradeStates, NEW fresh \in [Objects -> Nat]
  PROVE  LET n == [m EXCEPT !.pc = @ + 1, !.fresh = fresh]
         IN  n \in UpgradeStates /\ n.pc = m.pc + 1 /\ n.plan = m.plan /\ n.fresh = fresh
<1> DEFINE n == [m EXCEPT !.pc = @ + 1, !.fresh = fresh]
<1>1. DOMAIN n = {"pc", "plan", "fresh"}
  BY DEF UpgradeStates
<1>2. n.pc \in Nat /\ n.plan \in [Objects -> Nat] /\ n.fresh \in [Objects -> Nat]
  BY DEF UpgradeStates
<1>3. n.pc = m.pc + 1 /\ n.plan = m.plan /\ n.fresh = fresh
  BY DEF UpgradeStates
<1>4. n \in UpgradeStates
  BY <1>1, <1>2 DEF UpgradeStates
<1> QED
  BY <1>3, <1>4

LEMMA KnowsNext ==
  ASSUME Inv, NEW u \in Upgraders, NEW pass, Doing(u, pass),
         pass \notin {"fresh", "decide", "put"} \/ (pass = "put" /\ Subject(u) # "marker")
  PROVE  Knows(kind, store["marker"], Next1(upg[u]), Release[u])
<1> DEFINE m == upg[u]
           n == Next1(m)
<1>1. m \in UpgradeStates /\ kind \in Kinds /\ Knows(kind, store["marker"], m, Release[u])
  BY DEF Inv, Types
<1>2. m.pc \in Nat \ {0} /\ Programs[kind][m.pc] = <<pass, Subject(u)>>
  BY DoingOne
<1>3. n.pc = m.pc + 1 /\ n.plan = m.plan /\ n.fresh = m.fresh
  BY <1>1 DEF Next1, UpgradeStates
<1>4. \A o \in {"fresh", "decide", "put"} :
        Behind(kind, n.pc, o, "marker") <=> Behind(kind, m.pc, o, "marker")
  BY <1>1, <1>2, <1>3, BehindNext
<1>5. ~(n.pc <= 1)
  BY <1>2, <1>3
<1> HIDE DEF m, n
<1> QED
  BY <1>1, <1>3, <1>4, <1>5 DEF Knows, m, n

LEMMA Proceeding ==
  ASSUME Inv, NEW u \in Upgraders, NEW pass, Doing(u, pass),
         pass \in {"spool", "new", "same"},
         UpgradeStep, Proceed(u), store' = store
  PROVE  Inv'
<1> DEFINE n == Next1(upg[u])
<1>1. n \in UpgradeStates /\ n.pc = upg[u].pc + 1
  BY NextState DEF Inv, Types
<1>2. n.pc \in 0..(Len(Program) + 1) /\ Claimed
  BY <1>1, DoingOne
<1>3. upg' = [upg EXCEPT ![u] = n]
  BY DEF Proceed, Next1
<1>4. Knows(kind, store["marker"], n, Release[u])
  BY KnowsNext
<1>5. Onward /\ PagesBehindMarker'
  BY GenFacts DEF Onward, Inv, PagesBehindMarker, Types, Objects
<1> HIDE DEF n
<1> QED
  BY <1>1, <1>2, <1>3, <1>4, <1>5, UpgradeKeepsInv DEF Inv, Types

LEMMA Spooling ==
  ASSUME Inv, NEW u \in Upgraders, Spool(u)
  PROVE  Inv'
  BY Proceeding, Stopping DEF Spool

LEMMA Verifying ==
  ASSUME Inv, NEW u \in Upgraders, Verify(u)
  PROVE  Inv'
  BY Proceeding, Stopping DEF Verify

LEMMA Finishing ==
  ASSUME Inv, NEW u \in Upgraders, FinishUpgrade(u)
  PROVE  Inv'
  BY Stopping DEF FinishUpgrade

(* Reading for the first plan.                                             *)
LEMMA Planning ==
  ASSUME Inv, NEW u \in Upgraders, ReadForPlan(u, "plan")
  PROVE  Inv'
<1> DEFINE o == Subject(u)
           m == upg[u]
           n == [m EXCEPT !.pc = @ + 1, !.plan = [@ EXCEPT ![o] = store[o]]]
<1>1. Doing(u, "plan") /\ UpgradeStep /\ store' = store
  BY DEF ReadForPlan
<1>2. CASE Refused(u, o)
  <2>1. StopUpgrade(u)
    BY <1>2 DEF ReadForPlan
  <2> QED
    BY <1>1, <2>1, Stopping
<1>3. CASE ~Refused(u, o)
  <2>1. /\ m \in UpgradeStates /\ kind \in Kinds /\ store \in [Objects -> Nat]
        /\ Knows(kind, store["marker"], m, Release[u]) /\ "marker" \in Objects
    BY DEF Inv, Types, Objects
  <2>2. m.pc \in Nat \ {0} /\ Programs[kind][m.pc] = <<"plan", o>> /\ o \in Objects
    BY <1>1, DoingOne
  <2>3. /\ n \in UpgradeStates /\ n.pc = m.pc + 1 /\ n.fresh = m.fresh
        /\ n.plan = [m.plan EXCEPT ![o] = store[o]]
    <3>1. store[o] \in Nat /\ m.plan \in [Objects -> Nat]
      BY <2>1, <2>2 DEF UpgradeStates
    <3>2. [m.plan EXCEPT ![o] = store[o]] \in [Objects -> Nat]
      BY <3>1
    <3> DEFINE plan == [m.plan EXCEPT ![o] = store[o]]
    <3>3. n = [m EXCEPT !.pc = @ + 1, !.plan = plan]
      OBVIOUS
    <3> HIDE DEF n, plan
    <3>4. n \in UpgradeStates /\ n.pc = m.pc + 1 /\ n.plan = plan /\ n.fresh = m.fresh
      BY <2>1, <3>2, <3>3, PlannedState DEF plan
    <3> QED
      BY <3>4 DEF plan
  <2>4. upg' = [upg EXCEPT ![u] = n]
    BY <1>3 DEF ReadForPlan
  <2>5. Claimed
    <3>1. store[o] # 0 \/ ~(o = "marker")
      BY <1>3, <2>1 DEF Refused
    <3> QED
      BY <1>1, <2>2, <3>1, DoingOne DEF Inv, NothingYet
  <2>6. ~Behind(kind, m.pc, "fresh", "marker")
    BY <1>1, <2>1, NotDoneBefore, ProgramOrder
  <2>7. \A a \in {"fresh", "decide", "put"} :
          Behind(kind, n.pc, a, "marker") <=> Behind(kind, m.pc, a, "marker")
    BY <2>1, <2>2, <2>3, BehindNext
  <2>8. \A p \in Pages : store["marker"] = 0 \/ Gen(n.plan[p]) <= Gen(store["marker"])
    <3>1. \A p \in Pages : n.plan[p] = IF p = o THEN store[o] ELSE m.plan[p]
      BY <2>1, <2>2, <2>3 DEF UpgradeStates, Pages, Objects
    <3> QED
      BY <2>1, <3>1 DEF Knows, Inv, PagesBehindMarker
  <2>9. ~(n.pc <= 1) /\ n.pc \in 0..(Len(Program) + 1)
    BY <1>1, <2>2, <2>3, DoingOne
  <2> HIDE DEF n, m, o
  <2>10. Knows(kind, store["marker"], n, Release[u])
    BY <2>1, <2>3, <2>6, <2>7, <2>8, <2>9 DEF Knows
  <2>11. Onward /\ PagesBehindMarker'
    BY <1>1, <2>1, GenFacts DEF Onward, Inv, PagesBehindMarker
  <2> QED
    BY <1>1, <2>1, <2>3, <2>4, <2>5, <2>9, <2>10, <2>11, UpgradeKeepsInv
<1> QED
  BY <1>2, <1>3

(* Reading for the fresh plan.                                             *)
LEMMA PlanningAfresh ==
  ASSUME Inv, NEW u \in Upgraders, ReadForPlan(u, "fresh")
  PROVE  Inv'
<1> DEFINE o == Subject(u)
           m == upg[u]
           n == [m EXCEPT !.pc = @ + 1, !.fresh = [@ EXCEPT ![o] = store[o]]]
<1>1. Doing(u, "fresh") /\ UpgradeStep /\ store' = store
  BY DEF ReadForPlan
<1>2. CASE Refused(u, o)
  <2>1. StopUpgrade(u)
    BY <1>2 DEF ReadForPlan
  <2> QED
    BY <1>1, <2>1, Stopping
<1>3. CASE ~Refused(u, o)
  <2>1. /\ m \in UpgradeStates /\ kind \in Kinds /\ store \in [Objects -> Nat]
        /\ Knows(kind, store["marker"], m, Release[u]) /\ "marker" \in Objects
    BY DEF Inv, Types, Objects
  <2>2. m.pc \in Nat \ {0} /\ Programs[kind][m.pc] = <<"fresh", o>> /\ o \in Objects /\ Claimed
    BY <1>1, DoingOne
  <2>3. /\ n \in UpgradeStates /\ n.pc = m.pc + 1 /\ n.plan = m.plan
        /\ n.fresh = [m.fresh EXCEPT ![o] = store[o]]
    <3>1. store[o] \in Nat /\ m.fresh \in [Objects -> Nat]
      BY <2>1, <2>2 DEF UpgradeStates
    <3>2. [m.fresh EXCEPT ![o] = store[o]] \in [Objects -> Nat]
      BY <3>1
    <3> DEFINE fresh == [m.fresh EXCEPT ![o] = store[o]]
    <3>3. n = [m EXCEPT !.pc = @ + 1, !.fresh = fresh]
      OBVIOUS
    <3> HIDE DEF n, fresh
    <3>4. n \in UpgradeStates /\ n.pc = m.pc + 1 /\ n.plan = m.plan /\ n.fresh = fresh
      BY <2>1, <3>2, <3>3, FreshState DEF fresh
    <3> QED
      BY <3>4 DEF fresh
  <2>4. upg' = [upg EXCEPT ![u] = n]
    BY <1>3 DEF ReadForPlan
  <2>5. ~Behind(kind, m.pc, "decide", "marker")
    BY <1>1, <2>1, NotDoneBefore, ProgramOrder
  <2>6. /\ Behind(kind, n.pc, "fresh", "marker") <=> Behind(kind, m.pc, "fresh", "marker") \/ o = "marker"
        /\ \A a \in {"decide", "put"} :
             Behind(kind, n.pc, a, "marker") <=> Behind(kind, m.pc, a, "marker")
    BY <2>1, <2>2, <2>3, BehindNext
  <2>7. Behind(kind, n.pc, "fresh", "marker") =>
          /\ 1 <= n.fresh["marker"] /\ Gen(n.fresh["marker"]) <= Gen(Release[u])
          /\ store["marker"] = 0 \/ Gen(n.fresh["marker"]) <= Gen(store["marker"])
          /\ \A p \in Pages : Gen(n.plan[p]) <= Gen(n.fresh["marker"])
    <3>1. n.fresh["marker"] = IF o = "marker" THEN store["marker"] ELSE m.fresh["marker"]
      BY <2>1, <2>2, <2>3 DEF UpgradeStates
    <3>2. CASE o = "marker"
      <4>1. store["marker"] # 0 /\ ~(Gen(store["marker"]) > Gen(Release[u]))
        BY <1>3, <3>2 DEF Refused
      <4>2. store["marker"] \in Nat /\ Gen(store["marker"]) \in Nat /\ Gen(Release[u]) \in Nat
        BY <2>1, GenFacts
      <4>3. \A p \in Pages : Gen(m.plan[p]) <= Gen(store["marker"])
        BY <2>1, <4>1 DEF Knows
      <4> HIDE DEF n
      <4> QED
        BY <2>3, <3>1, <3>2, <4>1, <4>2, <4>3
    <3>3. CASE o # "marker"
      <4> HIDE DEF n
      <4> QED
        BY <2>1, <2>3, <2>6, <3>1, <3>3 DEF Knows
    <3> QED
      BY <3>2, <3>3
  <2>8. ~(n.pc <= 1) /\ n.pc \in 0..(Len(Program) + 1)
    BY <1>1, <2>2, <2>3, DoingOne
  <2> HIDE DEF n, m, o
  <2>9. Knows(kind, store["marker"], n, Release[u])
    BY <2>1, <2>3, <2>5, <2>6, <2>7, <2>8 DEF Knows
  <2>10. Onward /\ PagesBehindMarker'
    BY <1>1, <2>1, GenFacts DEF Onward, Inv, PagesBehindMarker
  <2> QED
    BY <1>1, <2>1, <2>2, <2>3, <2>4, <2>8, <2>9, <2>10, UpgradeKeepsInv
<1> QED
  BY <1>2, <1>3

LEMMA Deciding ==
  ASSUME Inv, NEW u \in Upgraders, Decide(u)
  PROVE  Inv'
<1> DEFINE m == upg[u]
           n == [m EXCEPT !.pc = @ + 1, !.plan = Nothing]
           bound == {"marker"} \cup Pages \cup Sources
           same == Upgradeable(u, m.fresh) /\ \A o \in bound : m.fresh[o] = m.plan[o]
<1>1. Doing(u, "decide") /\ UpgradeStep /\ store' = store
  BY DEF Decide
<1>2. CASE ~same
  <2>1. StopUpgrade(u)
    BY <1>2 DEF Decide
  <2> QED
    BY <1>1, <2>1, Stopping
<1>3. CASE same
  <2>1. /\ m \in UpgradeStates /\ kind \in Kinds /\ store \in [Objects -> Nat]
        /\ Knows(kind, store["marker"], m, Release[u]) /\ "marker" \in Objects
        /\ \A p \in Pages : p \in Objects
    BY DEF Inv, Types, Objects, Pages
  <2>2. m.pc \in Nat \ {0} /\ Programs[kind][m.pc] = <<"decide", Subject(u)>> /\ Claimed
    BY <1>1, DoingOne
  <2>3. m.pc \in DOMAIN Programs[kind] /\ Subject(u) = "marker"
    BY <1>1, <2>1, <2>2, DoingOne, ProgramOrder DEF Has
  <2>4. /\ n \in UpgradeStates /\ n.pc = m.pc + 1 /\ n.plan = Nothing /\ n.fresh = m.fresh
    <3>1. Nothing \in [Objects -> Nat]
      BY DEF Nothing
    <3> QED
      BY <2>1, <3>1, PlannedState
  <2>5. upg' = [upg EXCEPT ![u] = n]
    BY <1>3 DEF Decide
  <2>6. Behind(kind, m.pc, "fresh", "marker")
    BY <1>1, <2>1, <2>3, DoneBefore, ProgramOrder
  <2>7. \A p \in Pages : m.fresh[p] = m.plan[p]
    BY <1>3
  <2>8. \A p \in Pages : Gen(m.fresh[p]) <= Gen(Release[u])
    BY <2>1, <2>6, <2>7, GenFacts DEF Knows
  <2>9. \A p \in Pages : n.plan[p] = 0
    BY <2>1, <2>4 DEF Nothing
  <2>10. \A a \in {"fresh", "put"} :
          Behind(kind, n.pc, a, "marker") <=> Behind(kind, m.pc, a, "marker")
    BY <2>1, <2>2, <2>4, BehindNext
  <2>11. ~(n.pc <= 1) /\ n.pc \in 0..(Len(Program) + 1)
    BY <1>1, <2>2, <2>4, DoingOne
  <2>12. m.fresh["marker"] \in Nat /\ store["marker"] \in Nat
    BY <2>1 DEF UpgradeStates
  <2> HIDE DEF n, m
  <2>13. Knows(kind, store["marker"], n, Release[u])
    BY <2>1, <2>4, <2>8, <2>9, <2>10, <2>11, <2>12, GenFacts DEF Knows
  <2>14. Onward /\ PagesBehindMarker'
    BY <1>1, <2>1, GenFacts DEF Onward, Inv, PagesBehindMarker
  <2> QED
    BY <1>1, <2>1, <2>2, <2>4, <2>5, <2>11, <2>13, <2>14, UpgradeKeepsInv
<1> QED
  BY <1>2, <1>3

(* A step takes no page and no marker back to an older generation.         *)
Forward ==
  up' = up => \A o \in Pages \cup {"marker"} : store'[o] = 0 \/ Gen(store'[o]) >= Gen(store[o])

(* What is behind a put, and what an upgrade knows of what it replaces.    *)
LEMMA PutKnows ==
  ASSUME Inv, NEW u \in Upgraders, Doing(u, "put")
  PROVE  /\ Subject(u) \in {"marker"} \cup Pages
         /\ 1 <= upg[u].fresh["marker"] /\ Gen(upg[u].fresh["marker"]) <= Gen(Release[u])
         /\ store["marker"] = 0 \/ Gen(upg[u].fresh["marker"]) <= Gen(store["marker"])
         /\ \A p \in Pages : Gen(upg[u].fresh[p]) <= Gen(Release[u])
         /\ Subject(u) # "marker" => store["marker"] = 0 \/ Gen(Release[u]) <= Gen(store["marker"])
<1>1. kind \in Kinds /\ Knows(kind, store["marker"], upg[u], Release[u])
  BY DEF Inv, Types
<1>2. Behind(kind, upg[u].pc, "fresh", "marker") /\ Behind(kind, upg[u].pc, "decide", "marker")
  BY <1>1, DoneBefore, ProgramOrder
<1>3. Subject(u) # "marker" => Behind(kind, upg[u].pc, "put", "marker")
  BY <1>1, DoneBefore, ProgramOrder
<1>4. Subject(u) \in {"marker"} \cup Pages
  <2>1. Has(Programs[kind], <<"put", Subject(u)>>)
    BY DoingOne DEF Has
  <2> QED
    BY <1>1, <2>1, ProgramOrder
<1> QED
  BY <1>1, <1>2, <1>3, <1>4 DEF Knows

LEMMA Putting ==
  ASSUME Inv, NEW u \in Upgraders, PutPlanned(u)
  PROVE  Inv' /\ Forward
<1> DEFINE o == Subject(u)
           m == upg[u]
           r == Release[u]
           w == Content(r, o)
           n == Next1(m)
<1>1. Doing(u, "put") /\ UpgradeStep
  BY DEF PutPlanned
<1>2. /\ m \in UpgradeStates /\ kind \in Kinds /\ store \in [Objects -> Nat] /\ r \in Nat \ {0}
      /\ Knows(kind, store["marker"], m, r) /\ "marker" \in Objects
      /\ \A p \in Pages : p \in Objects /\ p # "marker" /\ p # "versions"
      /\ "versions" \in Objects
  BY ReleaseFacts DEF Inv, Types, Objects, Pages
<1>3. /\ m.pc \in Nat \ {0} /\ Programs[kind][m.pc] = <<"put", o>> /\ o \in Objects /\ Claimed
      /\ n.pc \in 0..(Len(Program) + 1)
  BY <1>1, <1>2, DoingOne, NextState
<1>4. o \in {"marker"} \cup Pages
  BY <1>1, PutKnows
<1>5. n \in UpgradeStates /\ n.pc = m.pc + 1 /\ n.plan = m.plan /\ n.fresh = m.fresh
  BY <1>2, NextState
<1>6. Proceed(u) => upg' = [upg EXCEPT ![u] = n]
  BY DEF Proceed, Next1
<1>7. /\ \A a \in {"fresh", "decide"} :
           Behind(kind, n.pc, a, "marker") <=> Behind(kind, m.pc, a, "marker")
      /\ Behind(kind, n.pc, "put", "marker") <=> Behind(kind, m.pc, "put", "marker") \/ o = "marker"
  <2> HIDE DEF n, m, o
  <2>1. kind \in Kinds /\ m.pc \in Nat \ {0} /\ Programs[kind][m.pc] = <<"put", o>>
    BY <1>2, <1>3
  <2>2. \A a : Behind(kind, m.pc + 1, a, "marker")
                <=> Behind(kind, m.pc, a, "marker") \/ <<"put", o>> = <<a, "marker">>
    BY <2>1, BehindNext
  <2>3. n.pc = m.pc + 1
    BY <1>5
  <2> QED
    BY <2>2, <2>3
<1>8. ~(n.pc <= 1)
  BY <1>3, <1>5
<1>9. m.fresh["marker"] \in Nat /\ \A p \in Objects : m.plan[p] \in Nat /\ m.fresh[p] \in Nat
  BY <1>2 DEF UpgradeStates
<1>15. w \in Nat \ {0} /\ Gen(w) = Gen(r)
  BY <1>4, ReleaseFacts, ContentFacts
<1>10. CASE m.fresh[o] = w /\ Proceed(u) /\ store' = store
  <2> HIDE DEF n, m, r, o, w
  <2>1. o = "marker" => store["marker"] = 0 \/ Gen(r) <= Gen(store["marker"])
    BY <1>1, <1>15, <1>10, PutKnows DEF m, r, o
  <2>2. Knows(kind, store["marker"], n, r)
    BY <1>2, <1>5, <1>7, <1>8, <2>1 DEF Knows
  <2>3. Onward /\ PagesBehindMarker' /\ Forward
    BY <1>2, <1>10, GenFacts DEF Onward, Inv, PagesBehindMarker, Forward
  <2>4. Inv'
    BY <1>1, <1>2, <1>3, <1>5, <1>6, <1>10, <2>2, <2>3, UpgradeKeepsInv DEF r
  <2> QED
    BY <2>3, <2>4
<1>11. CASE m.fresh[o] # w /\ store[o] # m.fresh[o] /\ StopUpgrade(u) /\ store' = store
  <2>1. Forward
    BY <1>2, <1>11, GenFacts DEF Forward
  <2> QED
    BY <1>1, <1>11, <2>1, Stopping
<1>12. CASE m.fresh[o] # w /\ store[o] = m.fresh[o] /\ Set(o, w) /\ Proceed(u)
  <2>1. /\ store' \in [Objects -> Nat] /\ store'[o] = w
        /\ \A p \in Objects : p # o => store'[p] = store[p]
    <3>2. store' = [store EXCEPT ![o] = w]
      BY <1>12 DEF Set
    <3> HIDE DEF n, m, r, w, o
    <3>1. w \in Nat /\ o \in Objects /\ store \in [Objects -> Nat]
      BY <1>2, <1>3, <1>15
    <3> QED
      BY <3>1, <3>2
  <2>10. Gen(store[o]) <= Gen(w)
    BY <1>1, <1>4, <1>12, <1>15, PutKnows
  <2>2. store'["versions"] = store["versions"]
    BY <1>2, <1>4, <2>1
  <2>3. Onward
    <3>1. CASE o = "marker"
      <4>1. store["marker"] # 0
        BY <1>1, <1>9, <1>12, <3>1, PutKnows
      <4> QED
        BY <2>1, <2>10, <3>1, <4>1 DEF Onward
    <3>2. CASE o # "marker"
      BY <1>2, <2>1, <3>2, GenFacts DEF Onward
    <3> QED
      BY <3>1, <3>2
  <2>4. Forward
    <3> HIDE DEF o, r, w
    <3> QED
      BY <1>2, <1>3, <2>1, <2>10, GenFacts DEF Forward
  <2>5. PagesBehindMarker'
    <3>1. CASE o = "marker"
      <4>1. store["marker"] # 0
        BY <1>1, <1>9, <1>12, <3>1, PutKnows
      <4>2. \A p \in Pages : Gen(store[p]) <= Gen(store["marker"])
        BY <4>1 DEF Inv, PagesBehindMarker
      <4>3. \A p \in Pages : store'[p] = store[p]
        BY <1>2, <2>1, <3>1
      <4> HIDE DEF o, r, w
      <4> QED
        BY <2>1, <2>10, <3>1, <4>2, <4>3, GenFacts DEF PagesBehindMarker
    <3>2. CASE o # "marker"
      <4>1. store["marker"] = 0 \/ Gen(r) <= Gen(store["marker"])
        BY <1>1, <3>2, PutKnows
      <4>2. store'["marker"] = store["marker"]
        BY <1>2, <2>1, <3>2
      <4>3. store["marker"] # 0 => \A p \in Pages : Gen(store[p]) <= Gen(store["marker"])
        BY DEF Inv, PagesBehindMarker
      <4> HIDE DEF o, r, w
      <4>4. \A p \in Pages : store'[p] = w \/ store'[p] = store[p]
        BY <1>2, <2>1
      <4> QED
        BY <1>15, <4>1, <4>2, <4>3, <4>4, GenFacts DEF PagesBehindMarker
    <3> QED
      BY <3>1, <3>2
  <2>6. Knows(kind, store'["marker"], m, r)
    BY <1>2, <2>1, <2>3, KnowsOnward DEF Onward
  <2>7. o = "marker" => Gen(store'["marker"]) = Gen(r)
    BY <1>15, <2>1
  <2> HIDE DEF n, m, r, o, w
  <2>8. Knows(kind, store'["marker"], n, r)
    BY <1>2, <1>5, <1>7, <1>8, <2>6, <2>7, GenFacts DEF Knows
  <2>9. Inv'
    BY <1>1, <1>2, <1>3, <1>5, <1>6, <1>12, <2>1, <2>2, <2>3, <2>5, <2>8, UpgradeKeepsInv DEF r
  <2> QED
    BY <2>4, <2>9
<1> QED
  BY <1>10, <1>11, <1>12 DEF PutPlanned

(* A step that neither uploads nor upgrades and puts no page and no marker *)
(* keeps the invariant.                                                    *)
LEMMA QuietKeepsInv ==
  ASSUME Inv, kind' = kind, up' = up, upg' = upg,
         del' \in [Deleters -> DeleteStates], grd' \in [Guards -> GuardStates],
         faults' \in 0..MaxFaults, lost' \in 0..MaxLost,
         store' \in [Objects -> Nat], store'["versions"] \in {0, Reservation, History},
         \A o \in Pages \cup {"marker"} : store'[o] \in {0, store[o]},
         ~Claimed => /\ store' = store
                     /\ \A x \in Deleters : del'[x].step = "idle"
                     /\ \A g \in Guards : grd'[g] = "idle"
  PROVE  Inv' /\ Forward
<1>1. Program' = Program /\ Claimed' = Claimed
  BY DEF Program, Claimed, Programs, Execution, EachIn, OtherPages, SourceList, PlanReads, Declared
<1>2. Types'
  BY <1>1 DEF Inv, Types
<1>3. NothingYet' /\ \A c \in Uploaders : UploadOK(c)'
  BY <1>1 DEF Inv, NothingYet, UploadOK
<1>4. /\ store["marker"] \in Nat /\ store'["marker"] \in {0, store["marker"]}
      /\ \A p \in Pages : store[p] \in Nat /\ store'[p] \in {0, store[p]}
  BY DEF Inv, Types, Objects, Pages
<1>5. PagesBehindMarker'
  BY <1>4, GenFacts DEF Inv, PagesBehindMarker
<1>6. ASSUME NEW u \in Upgraders PROVE Knows(kind, store["marker"], upg[u], Release[u])'
  <2>1. /\ kind \in Kinds /\ upg[u] \in UpgradeStates /\ Release[u] \in Nat \ {0}
        /\ Knows(kind, store["marker"], upg[u], Release[u])
    BY ReleaseFacts DEF Inv, Types
  <2>2. /\ store'["marker"] \in Nat
        /\ store'["marker"] = 0 \/ (store["marker"] # 0 /\ Gen(store["marker"]) <= Gen(store'["marker"]))
    BY <1>4, GenFacts
  <2>3. Knows(kind, store'["marker"], upg[u], Release[u])
    BY <1>4, <2>1, <2>2, KnowsOnward
  <2> QED
    BY <2>3
<1>7. Forward
  BY <1>4, GenFacts DEF Forward
<1>8. OriginalFirst'
  BY <1>1, <1>4 DEF OriginalFirst, Inv
<1> QED
  BY <1>2, <1>3, <1>5, <1>6, <1>7, <1>8 DEF Inv

-----------------------------------------------------------------------------
(* The steps of deletions and of others.                                   *)

LEMMA DeletingKeepsInv ==
  ASSUME Inv, NEW x \in Deleters, DeleteProgress(x) \/ DeleteStops(x)
  PROVE  Inv' /\ Forward
<1> USE DEF DeleteStates
<1>1. /\ del \in [Deleters -> DeleteStates] /\ grd \in [Guards -> GuardStates]
      /\ store \in [Objects -> Nat] /\ store["versions"] \in {0, Reservation, History}
      /\ faults \in 0..MaxFaults /\ lost \in 0..MaxLost
      /\ {"marker", "entry", "sentinel", "versions"} \cup Payload \cup Pages \subseteq Objects
      /\ \A o \in Payload : o # "versions"
      /\ \A o \in Pages \cup {"marker"} : o # "versions" /\ o # "sentinel"
  BY DEF Inv, Types, Objects, Payload, Pages
<1>2. ~Claimed => /\ \A o \in Objects : store[o] = 0
                  /\ \A y \in Deleters : del[y].step = "idle"
                  /\ \A g \in Guards : grd[g] = "idle"
  BY DEF Inv, NothingYet
<1>4. CASE PlanPurge(x) \/ ResolveMarker(x) \/ ListDirectory(x)
  <2>1. Claimed
    BY <1>1, <1>2, <1>4 DEF PlanPurge, ResolveMarker, ListDirectory
  <2>2. del' \in [Deleters -> DeleteStates]
    <3>1. CASE PlanPurge(x)
      BY <1>1, <3>1 DEF PlanPurge
    <3>2. CASE ResolveMarker(x)
      BY <1>1, <3>2 DEF ResolveMarker
    <3>3. CASE ListDirectory(x)
      BY <1>1, <3>3 DEF ListDirectory, NoDelete
    <3> QED
      BY <1>4, <3>1, <3>2, <3>3
  <2>3. DeleteStep /\ store' = store
    BY <1>4 DEF PlanPurge, ResolveMarker, ListDirectory
  <2> QED
    BY <1>1, <2>1, <2>2, <2>3, QuietKeepsInv DEF DeleteStep
<1>5. CASE ReserveStandalone(x)
  <2>1. Claimed
    BY <1>2, <1>5 DEF ReserveStandalone
  <2>2. del' \in [Deleters -> DeleteStates]
    BY <1>1, <1>5 DEF ReserveStandalone, NoDelete
  <2>3. /\ store' \in [Objects -> Nat] /\ store'["versions"] \in {0, Reservation, History}
        /\ \A o \in Objects \ {"versions"} : store'[o] = store[o]
    BY <1>1, <1>5 DEF ReserveStandalone, Set, Reservation
  <2>4. DeleteStep
    BY <1>5 DEF ReserveStandalone
  <2> QED
    BY <1>1, <2>1, <2>2, <2>3, <2>4, QuietKeepsInv DEF DeleteStep
<1>6. CASE DeletePayload(x) \/ DeleteSentinel(x) \/ DeleteMarker(x)
  <2>1. Claimed
    BY <1>2, <1>6 DEF DeletePayload, DeleteSentinel, DeleteMarker
  <2>2. PICK o \in Payload \cup {"sentinel", "marker"} : Set(o, 0)
    BY <1>6 DEF DeletePayload, DeleteSentinel, DeleteMarker, Remaining
  <2>3. /\ store' \in [Objects -> Nat] /\ store'["versions"] = store["versions"]
        /\ \A p \in Objects : store'[p] \in {0, store[p]}
    BY <1>1, <2>2 DEF Set
  <2>4. del' \in [Deleters -> DeleteStates] /\ DeleteStep
    <3>1. CASE DeletePayload(x)
      BY <1>1, <3>1 DEF DeletePayload
    <3>2. CASE DeleteSentinel(x)
      BY <1>1, <3>2 DEF DeleteSentinel
    <3>3. CASE DeleteMarker(x)
      BY <1>1, <3>3 DEF DeleteMarker, NoDelete
    <3> QED
      BY <1>6, <3>1, <3>2, <3>3
  <2> QED
    BY <1>1, <2>1, <2>3, <2>4, QuietKeepsInv DEF DeleteStep
<1>7. CASE DeleteStops(x)
  <2>1. Claimed
    BY <1>2, <1>7 DEF DeleteStops
  <2>2. del' \in [Deleters -> DeleteStates] /\ faults' \in 0..MaxFaults
    BY <1>1, <1>7, FaultsAssumption DEF DeleteStops, NoDelete, Fault
  <2>3. UNCHANGED <<kind, store, up, upg, grd, lost>>
    BY <1>7 DEF DeleteStops, Fault
  <2> QED
    BY <1>1, <2>1, <2>2, <2>3, QuietKeepsInv
<1> QED
  BY <1>4, <1>5, <1>6, <1>7 DEF DeleteProgress

LEMMA OthersKeepInv ==
  ASSUME Inv, NEW g \in Guards,
         \/ StartGuard(g, "protect") \/ StartGuard(g, "unprotect") \/ WriteSentinel(g)
         \/ Link \/ LosePage
  PROVE  Inv' /\ Forward
<1>1. /\ del \in [Deleters -> DeleteStates] /\ grd \in [Guards -> GuardStates]
      /\ store \in [Objects -> Nat] /\ store["versions"] \in {0, Reservation, History}
      /\ faults \in 0..MaxFaults /\ lost \in 0..MaxLost
      /\ {"marker", "entry", "sentinel", "versions"} \cup Pages \subseteq Objects
      /\ \A o \in Pages \cup {"marker"} : o # "versions" /\ o # "sentinel"
  BY DEF Inv, Types, Objects, Pages
<1>2. ~Claimed => /\ \A o \in Objects : store[o] = 0
                  /\ \A y \in Deleters : del[y].step = "idle"
                  /\ \A h \in Guards : grd[h] = "idle"
  BY DEF Inv, NothingYet
<1>3. CASE StartGuard(g, "protect") \/ StartGuard(g, "unprotect")
  <2>1. Claimed
    BY <1>1, <1>2, <1>3 DEF StartGuard
  <2>2. grd' \in [Guards -> GuardStates]
    BY <1>1, <1>3 DEF StartGuard, GuardStates
  <2>3. UNCHANGED <<kind, store, up, upg, del, faults, lost>>
    BY <1>3 DEF StartGuard
  <2> QED
    BY <1>1, <2>1, <2>2, <2>3, QuietKeepsInv
<1>4. CASE WriteSentinel(g)
  <2>1. Claimed
    BY <1>2, <1>4 DEF WriteSentinel
  <2>2. grd' \in [Guards -> GuardStates]
    BY <1>1, <1>4 DEF WriteSentinel, GuardStates
  <2>3. store' \in [Objects -> Nat] /\ \A o \in Objects \ {"sentinel"} : store'[o] = store[o]
    BY <1>1, <1>4 DEF WriteSentinel, Set
  <2>4. UNCHANGED <<kind, up, upg, del, faults, lost>>
    BY <1>4 DEF WriteSentinel
  <2> QED
    BY <1>1, <2>1, <2>2, <2>3, <2>4, QuietKeepsInv
<1>5. CASE Link
  <2>1. Claimed
    BY <1>1, <1>2, <1>5 DEF Link
  <2>2. /\ store' \in [Objects -> Nat] /\ store'["versions"] \in {0, Reservation, History}
        /\ \A o \in Objects \ {"versions"} : store'[o] = store[o]
    BY <1>1, <1>5 DEF Link, Set, History
  <2>3. UNCHANGED <<kind, up, upg, del, grd, faults, lost>>
    BY <1>5 DEF Link
  <2> QED
    BY <1>1, <2>1, <2>2, <2>3, QuietKeepsInv
<1>6. CASE LosePage
  <2>1. PICK p \in Pages : store[p] # 0 /\ Set(p, 0)
    BY <1>6 DEF LosePage
  <2>2. Claimed
    BY <1>1, <1>2, <2>1
  <2>3. /\ store' \in [Objects -> Nat] /\ store'["versions"] = store["versions"]
        /\ \A o \in Objects : store'[o] \in {0, store[o]}
    BY <1>1, <2>1 DEF Set
  <2>4. UNCHANGED <<kind, up, upg, del, grd, faults>> /\ lost' \in 0..MaxLost
    BY <1>1, <1>6, FaultsAssumption DEF LosePage
  <2> QED
    BY <1>1, <2>2, <2>3, <2>4, QuietKeepsInv
<1> QED
  BY <1>3, <1>4, <1>5, <1>6

-----------------------------------------------------------------------------
(* The steps of the upload.                                                *)

LEMMA DeclaredIsPayload ==
  ASSUME NEW k \in Kinds
  PROVE  Declared(k) \subseteq Payload
  BY KindsAssumption DEF Declared, DeclaredByDocument, DeclaredByFiles, DeclaredByUpload, Payload, Pages

(* A step of the upload that puts one of its objects keeps the invariant.  *)
LEMMA UploadKeepsInv ==
  ASSUME Inv, NEW c \in Uploaders, NEW m \in UploadStates,
         kind' = kind, upg' = upg, del' = del, grd' = grd,
         faults' \in 0..MaxFaults, lost' = lost,
         up' = [up EXCEPT ![c] = m], m.step # "idle",
         m.step = "payload" => m.todo \subseteq Declared(kind) \ {"entry"},
         \/ store' = store /\ up[c].step # "idle"
         \/ Set("marker", Content(Original, "marker")) /\ up[c].step = "idle"
         \/ \E o \in Payload : Set(o, Content(Original, o)) /\ up[c].step # "idle"
  PROVE  Inv'
<1>1. /\ store \in [Objects -> Nat] /\ up \in [Uploaders -> UploadStates] /\ kind \in Kinds
      /\ {"marker", "versions"} \cup Payload \cup Pages \subseteq Objects
      /\ \A o \in Payload \cup Pages : o # "versions" /\ o # "marker"
      /\ store["versions"] \in {0, Reservation, History}
  BY DEF Inv, Types, Objects, Payload, Pages
<1>2. /\ \A d \in Uploaders : d = c
      /\ Claimed <=> up[c].step # "idle"
      /\ Claimed'
  BY <1>1, UploadersAssumption DEF Claimed
<1>3. Program' = Program
  BY DEF Program, Programs, Execution, EachIn, OtherPages, SourceList, PlanReads, Declared
<1>4. /\ store' \in [Objects -> Nat] /\ store'["versions"] = store["versions"]
  BY <1>1, UploadPuts DEF Set
<1>5. Types'
  BY <1>1, <1>3, <1>4 DEF Inv, Types
<1>6. NothingYet'
  BY <1>2 DEF NothingYet
<1>7. \A d \in Uploaders : UploadOK(d)'
  BY <1>1, <1>2 DEF UploadOK
<1>8. /\ ~Claimed => \A o \in Objects : store[o] = 0
      /\ ~Claimed => \A u \in Upgraders : upg[u].pc <= 1
      /\ store["marker"] # 0 => \A p \in Pages : Gen(store[p]) <= Gen(store["marker"])
  BY DEF Inv, NothingYet, PagesBehindMarker
<1>9. \/ store'["marker"] = store["marker"]
      \/ /\ ~Claimed /\ Gen(store'["marker"]) = Gen(Original)
         /\ \A o \in Objects \ {"marker"} : store'[o] = store[o]
  BY <1>1, <1>2, UploadPuts DEF Set
<1>10. \A p \in Pages : Gen(store'[p]) \in {Gen(Original), Gen(store[p])}
  BY <1>1, UploadPuts DEF Set
<1>16. Claimed /\ store["marker"] # 0 => Gen(Original) <= Gen(store["marker"])
  BY DEF Inv, OriginalFirst
<1>11. PagesBehindMarker'
  <2>1. CASE store'["marker"] = store["marker"]
    <3>1. CASE Claimed /\ store["marker"] # 0
      <4>1. Gen(Original) <= Gen(store["marker"])
        BY <1>16, <3>1
      <4>2. \A p \in Pages : Gen(store[p]) <= Gen(store["marker"])
        BY <1>8, <3>1
      <4> QED
        BY <1>10, <2>1, <4>1, <4>2, GenFacts DEF PagesBehindMarker
    <3>2. CASE ~(Claimed /\ store["marker"] # 0)
      BY <1>1, <1>8, <2>1, <3>2 DEF PagesBehindMarker
    <3> QED
      BY <3>1, <3>2
  <2>2. CASE store'["marker"] # store["marker"]
    <3>1. \A p \in Pages : store[p] = 0 /\ store'[p] = 0
      BY <1>1, <1>8, <1>9, <2>2
    <3> QED
      BY <3>1, GenFacts DEF PagesBehindMarker
  <2> QED
    BY <2>1, <2>2
<1>12. ASSUME NEW u \in Upgraders PROVE Knows(kind, store["marker"], upg[u], Release[u])'
  <2>1. /\ upg[u] \in UpgradeStates /\ Release[u] \in Nat \ {0}
        /\ Knows(kind, store["marker"], upg[u], Release[u])
        /\ store["marker"] \in Nat /\ store'["marker"] \in Nat
    BY <1>1, <1>4, ReleaseFacts DEF Inv, Types
  <2>2. upg[u].pc <= 1 \/ store'["marker"] = 0
          \/ (store["marker"] # 0 /\ Gen(store["marker"]) <= Gen(store'["marker"]))
    BY <1>8, <1>9, <2>1, GenFacts
  <2>3. Knows(kind, store'["marker"], upg[u], Release[u])
    BY <1>1, <2>1, <2>2, KnowsOnward
  <2> QED
    BY <2>3
<1>13. OriginalFirst'
  <2>1. CASE store'["marker"] = store["marker"]
    BY <1>1, <1>8, <1>16, <2>1 DEF OriginalFirst
  <2>2. CASE Gen(store'["marker"]) = Gen(Original)
    BY <2>2, GenFacts DEF OriginalFirst
  <2> QED
    BY <1>9, <2>1, <2>2
<1> QED
  BY <1>5, <1>6, <1>7, <1>11, <1>12, <1>13 DEF Inv

LEMMA UploadingKeepsInv ==
  ASSUME Inv, NEW c \in Uploaders, UploadProgress(c) \/ UploadStops(c)
  PROVE  Inv' /\ Forward
<1> USE DEF UploadStates
<1>1. /\ up \in [Uploaders -> UploadStates] /\ kind \in Kinds /\ faults \in 0..MaxFaults
      /\ UploadOK(c) /\ Declared(kind) \subseteq Payload /\ "entry" \in Payload
      /\ store \in [Objects -> Nat] /\ \A o \in Pages \cup {"marker"} : o \in Objects
  BY DeclaredIsPayload DEF Inv, Types, Payload, Pages, Objects
<1>2. CASE PutMarkerFirst(c)
  <2> DEFINE m == [step |-> "payload", todo |-> Declared(kind) \ {"entry"}]
  <2>1. /\ m \in UploadStates /\ up' = [up EXCEPT ![c] = m] /\ m.step = "payload"
        /\ m.todo = Declared(kind) \ {"entry"} /\ up[c].step = "idle"
        /\ Set("marker", Content(Original, "marker"))
    BY <1>1, <1>2 DEF PutMarkerFirst
  <2>2. up' # up
    BY <1>1, <2>1
  <2>3. UNCHANGED <<kind, upg, del, grd, faults, lost>>
    BY <1>2 DEF PutMarkerFirst
  <2> HIDE DEF m
  <2> QED
    BY <1>1, <2>1, <2>2, <2>3, UploadKeepsInv DEF Forward
<1>3. CASE PutPayload(c)
  <2>1. PICK o \in up[c].todo : /\ Set(o, Content(Original, o))
                                /\ up' = [up EXCEPT ![c].todo = @ \ {o}]
    BY <1>3 DEF PutPayload
  <2> DEFINE m == [up[c] EXCEPT !.todo = @ \ {o}]
  <2>2. up[c] \in UploadStates /\ up[c].step = "payload"
    BY <1>1, <1>3 DEF PutPayload
  <2>3. m \in UploadStates /\ m.step = "payload" /\ m.todo = up[c].todo \ {o} /\ o \in Payload
    BY <2>1, <2>2
  <2>4. up' = [up EXCEPT ![c] = m]
    BY <2>1
  <2>5. up' # up
    BY <1>1, <2>1, <2>3, <2>4
  <2>6. UNCHANGED <<kind, upg, del, grd, faults, lost>>
    BY <1>3 DEF PutPayload
  <2>7. m.todo \subseteq Declared(kind) \ {"entry"}
    BY <1>1, <2>2, <2>3 DEF UploadOK
  <2> HIDE DEF m
  <2> QED
    BY <1>1, <2>1, <2>2, <2>3, <2>4, <2>5, <2>6, <2>7, UploadKeepsInv DEF Forward
<1>4. CASE PutEntryLast(c)
  <2> DEFINE m == [up[c] EXCEPT !.step = "done"]
  <2>1. up[c] \in UploadStates /\ up[c].step = "payload"
    BY <1>1, <1>4 DEF PutEntryLast
  <2>2. m \in UploadStates /\ m.step = "done"
    BY <2>1
  <2>3. up' = [up EXCEPT ![c] = m] /\ Set("entry", Content(Original, "entry"))
    BY <1>4 DEF PutEntryLast
  <2>4. up' # up
    BY <1>1, <2>1, <2>2, <2>3
  <2>5. UNCHANGED <<kind, upg, del, grd, faults, lost>>
    BY <1>4 DEF PutEntryLast
  <2> HIDE DEF m
  <2> QED
    BY <1>1, <2>1, <2>2, <2>3, <2>4, <2>5, UploadKeepsInv DEF Forward
<1>5. CASE UploadStops(c)
  <2> DEFINE m == [up[c] EXCEPT !.step = "stopped"]
  <2>1. up[c] \in UploadStates /\ up[c].step = "payload"
    BY <1>1, <1>5 DEF UploadStops
  <2>2. m \in UploadStates /\ m.step = "stopped"
    BY <2>1
  <2>3. up' = [up EXCEPT ![c] = m] /\ UNCHANGED <<kind, store, upg, del, grd, lost>>
    BY <1>5 DEF UploadStops, Fault
  <2>4. faults' \in 0..MaxFaults
    BY <1>1, <1>5, FaultsAssumption DEF UploadStops, Fault
  <2>5. Forward
    BY <1>1, <2>3, GenFacts DEF Forward
  <2> HIDE DEF m
  <2> QED
    BY <2>1, <2>2, <2>3, <2>4, <2>5, UploadKeepsInv
<1> QED
  BY <1>2, <1>3, <1>4, <1>5 DEF UploadProgress

-----------------------------------------------------------------------------
(* The invariant.                                                          *)

LEMMA InitInv ==
  Init => Inv
<1> SUFFICES ASSUME Init PROVE Inv
  OBVIOUS
<1> USE DEF Init
<1>1. Len(Program) \in Nat
  BY ProgramOrder, LenProperties DEF Program
<1>2. /\ {"marker", "entry", "versions"} \cup Pages \subseteq Objects
      /\ "versions" \notin Declared(kind)
      /\ store \in [Objects -> Nat]
      /\ store["versions"] = 0
      /\ \A o \in Objects : Uploaders # {} => store[o] = 0
  <2>1. /\ {"marker", "entry", "versions"} \cup Pages \subseteq Objects
        /\ "versions" \notin Declared(kind)
    BY DeclaredIsPayload DEF Objects, Payload, Pages
  <2> QED
    BY <2>1, InitStore
<1>3. Types
  <2>1. up \in [Uploaders -> UploadStates]
    BY DEF NoUpload, UploadStates
  <2>2. upg \in [Upgraders -> UpgradeStates] /\ \A u \in Upgraders : upg[u].pc \in 0..(Len(Program) + 1)
    BY <1>1 DEF NoUpgrade, Nothing, UpgradeStates
  <2>3. del \in [Deleters -> DeleteStates] /\ grd \in [Guards -> GuardStates]
    BY DEF NoDelete, DeleteStates, GuardStates
  <2> QED
    BY <1>2, <2>1, <2>2, <2>3, FaultsAssumption DEF Types
<1>4. NothingYet
  BY DEF NothingYet, Claimed, NoUpload, NoUpgrade, NoDelete
<1>5. PagesBehindMarker /\ OriginalFirst
  <2>1. \/ store["marker"] = 0
        \/ Gen(store["marker"]) = Gen(Original)
           /\ \A p \in Pages : store[p] = 0 \/ Gen(store[p]) = Gen(Original)
    BY <1>2, InitStore, UploadPuts
  <2> QED
    BY <2>1, GenFacts DEF PagesBehindMarker, OriginalFirst
<1>6. \A c \in Uploaders : UploadOK(c)
  BY DEF UploadOK, NoUpload
<1>7. ASSUME NEW u \in Upgraders PROVE Knows(kind, store["marker"], upg[u], Release[u])
  <2>1. upg[u] = [NoUpgrade EXCEPT !.pc = 0]
    BY DEF NoUpgrade
  <2>2. store["marker"] \in Nat /\ Release[u] \in Nat \ {0}
    BY <1>2, ReleaseFacts
  <2> QED
    BY <2>1, <2>2, KnowsNothing
<1> QED
  BY <1>3, <1>4, <1>5, <1>6, <1>7 DEF Inv

LEMMA UpgradingKeepsInv ==
  ASSUME Inv, NEW u \in Upgraders, UpgradeProgress(u) \/ UpgradeStops(u)
  PROVE  Inv' /\ Forward
<1>1. CASE PutPlanned(u)
  BY <1>1, Putting
<1>2. CASE UpgradeStops(u)
  <2>1. StopUpgrade(u) /\ Fault /\ UNCHANGED <<kind, store, up, del, grd>>
    BY <1>2 DEF UpgradeStops
  <2>2. Inv'
    BY <2>1, Stopping
  <2>3. Forward
    BY <2>1, GenFacts DEF Forward, Inv, Types, Pages, Objects
  <2> QED
    BY <2>2, <2>3
<1>3. ASSUME ~PutPlanned(u), UpgradeProgress(u) PROVE Inv' /\ Forward
  <2>1. Inv'
    BY <1>3, Starting, Planning, PlanningAfresh, Deciding, Spooling, Verifying, Finishing
    DEF UpgradeProgress
  <2>2. store' = store
    BY <1>3 DEF UpgradeProgress, StartUpgrade, ReadForPlan, Decide, Spool, Verify, FinishUpgrade
  <2>3. Forward
    BY <2>2, GenFacts DEF Forward, Inv, Types, Pages, Objects
  <2> QED
    BY <2>1, <2>3
<1> QED
  BY <1>1, <1>2, <1>3

LEMMA NextKeepsInv ==
  Inv /\ [Next]_vars => Inv' /\ (Forward \/ UNCHANGED vars)
<1> SUFFICES ASSUME Inv, [Next]_vars PROVE Inv' /\ (Forward \/ UNCHANGED vars)
  OBVIOUS
<1>1. CASE UNCHANGED vars
  BY <1>1 DEF vars, Inv, Types, NothingYet, OriginalFirst, PagesBehindMarker, UploadOK, Knows, Behind, Claimed, Program
<1>2. CASE Next
  BY <1>2, UploadingKeepsInv, UpgradingKeepsInv, DeletingKeepsInv, OthersKeepInv DEF Next
<1> QED
  BY <1>1, <1>2

(* Every reachable state satisfies it.                                     *)
THEOREM InvariantHolds == Spec => []Inv
  BY InitInv, NextKeepsInv, PTL DEF Spec

(* Every variable has its type.                                            *)
LEMMA InvTypes == Inv => TypeOK
<1> SUFFICES ASSUME Inv PROVE TypeOK
  OBVIOUS
<1>1. /\ \A c \in Uploaders : up[c].todo \subseteq Payload
      /\ \A x \in Deleters : del[x].listing \subseteq Objects
  BY DEF Inv, Types, UploadStates, DeleteStates
<1> QED
  BY <1>1 DEF Inv, Types, TypeOK, GuardStates

THEOREM TypeCorrect == Spec => []TypeOK
  BY InvariantHolds, InvTypes, PTL

(* No page is ever of a newer generation than the marker that says what    *)
(* rendered it, however upgrades of any releases, forced ones among them,  *)
(* the upload, deletions and other users overlap and wherever they stop.   *)
THEOREM MarkerFirst == Spec => []PagesBehindMarker
<1>1. Inv => PagesBehindMarker
  BY DEF Inv
<1> QED
  BY <1>1, InvariantHolds, PTL

(* None takes a page or the marker back to an older generation, whatever   *)
(* it repairs or forces.                                                   *)
THEOREM NeverBack == Spec => PagesForward
<1>1. Inv /\ [Next]_vars => [Forward]_vars
  BY NextKeepsInv
<1> QED
  BY <1>1, InvariantHolds, PTL DEF Spec, PagesForward, Forward


-----------------------------------------------------------------------------
(* Deletions.                                                              *)

(* What holds of a history holds whatever else is going on.                *)
LEMMA HistoryNext ==
  ASSUME Inv, HistoryInv, [Next]_vars
  PROVE  HistoryInv' /\ (HistoryKept \/ UNCHANGED vars)
<1>1. /\ store \in [Objects -> Nat] /\ del \in [Deleters -> DeleteStates]
      /\ {"marker", "entry", "sentinel", "versions"} \cup Payload \cup Pages \subseteq Objects
      /\ \A o \in Payload \cup Pages \cup {"marker", "sentinel"} : o # "versions"
      /\ \A x \in Deleters : (del[x].step = "payload" /\ SourceBacked) => store["versions"] = Reservation
      /\ store["versions"] = History => SourceBacked
  BY DEF Inv, Types, Objects, Payload, Pages, HistoryInv
<1>2. CASE UNCHANGED vars
  BY <1>2 DEF vars, HistoryInv, SourceBacked
<1>3. ASSUME kind' = kind, del' = del, store' \in [Objects -> Nat], store'["versions"] = store["versions"],
             \A o \in Objects \ {"sentinel"} : store[o] # 0 /\ lost' = lost => store'[o] # 0
      PROVE  HistoryInv' /\ HistoryKept
  BY <1>3 DEF HistoryInv, HistoryKept, SourceBacked
<1>4. ASSUME NEW c \in Uploaders, UploadProgress(c) \/ UploadStops(c) PROVE HistoryInv' /\ HistoryKept
  <2>1. CASE UploadStops(c)
    BY <1>1, <1>3, <2>1 DEF UploadStops
  <2>2. CASE UploadProgress(c)
    <3>1. up[c].step = "payload" => up[c].todo \subseteq Payload
      BY DEF Inv, Types, UploadStates
    <3>2. PICK o \in Payload \cup {"marker"} : Set(o, Content(Original, o))
      BY <2>2, <3>1 DEF UploadProgress, PutMarkerFirst, PutPayload, PutEntryLast, Payload, Pages
    <3>3. kind' = kind /\ del' = del
      BY <2>2 DEF UploadProgress, PutMarkerFirst, PutPayload, PutEntryLast
    <3> QED
      BY <1>1, <1>3, <3>2, <3>3, UploadPuts DEF Set
  <2> QED
    BY <1>4, <2>1, <2>2
<1>5. ASSUME NEW u \in Upgraders, UpgradeProgress(u) \/ UpgradeStops(u) PROVE HistoryInv' /\ HistoryKept
  <2>1. kind' = kind /\ del' = del
    BY <1>5 DEF UpgradeProgress, StartUpgrade, ReadForPlan, Decide, Spool, Verify, FinishUpgrade,
                UpgradeStops, UpgradeStep, PutPlanned
  <2>2. CASE PutPlanned(u)
    <3>1. Subject(u) \in Pages \cup {"marker"}
      BY <2>2, PutKnows DEF PutPlanned
    <3>2. store' = store \/ Set(Subject(u), Content(Release[u], Subject(u)))
      BY <2>2 DEF PutPlanned
    <3>3. Content(Release[u], Subject(u)) \in Nat \ {0}
      BY UpgradePuts
    <3> QED
      BY <1>1, <1>3, <2>1, <3>1, <3>2, <3>3 DEF Set
  <2>3. CASE ~PutPlanned(u)
    <3>1. store' = store
      BY <1>5, <2>3 DEF UpgradeProgress, StartUpgrade, ReadForPlan, Decide, Spool, Verify,
                        FinishUpgrade, UpgradeStops
    <3> QED
      BY <1>1, <1>3, <2>1, <3>1
  <2> QED
    BY <2>2, <2>3
<1>6. ASSUME NEW x \in Deleters, DeleteProgress(x) \/ DeleteStops(x) PROVE HistoryInv' /\ HistoryKept
  <2>1. kind' = kind /\ del[x] \in DeleteStates
    BY <1>1, <1>6 DEF DeleteProgress, PlanPurge, ResolveMarker, ListDirectory, ReserveStandalone,
                DeletePayload, DeleteSentinel, DeleteMarker, DeleteStops, DeleteStep
  <2>2. CASE PlanPurge(x) \/ ResolveMarker(x) \/ ListDirectory(x) \/ DeleteStops(x)
    <3>1. store' = store
      BY <2>2 DEF PlanPurge, ResolveMarker, ListDirectory, DeleteStops
    <3>2. \A y \in Deleters : (del'[y].step = "payload" /\ SourceBacked) => del[y].step = "payload"
      <4>1. CASE PlanPurge(x)
        BY <1>1, <4>1 DEF PlanPurge, DeleteStates
      <4>2. CASE ResolveMarker(x)
        BY <1>1, <4>2 DEF ResolveMarker, DeleteStates
      <4>3. CASE ListDirectory(x)
        BY <1>1, <4>3 DEF ListDirectory, DeleteStates, NoDelete
      <4>4. CASE DeleteStops(x)
        BY <1>1, <4>4 DEF DeleteStops, DeleteStates, NoDelete
      <4> QED
        BY <2>2, <4>1, <4>2, <4>3, <4>4
    <3> QED
      BY <1>1, <2>1, <3>1, <3>2 DEF HistoryInv, HistoryKept, SourceBacked
  <2>3. CASE ReserveStandalone(x)
    <3>1. \A y \in Deleters : y # x => del'[y] = del[y]
      BY <1>1, <2>3 DEF ReserveStandalone
    <3>2. \/ store["versions"] \in {0, Reservation} /\ store'["versions"] = Reservation
          \/ store["versions"] = History /\ store' = store /\ del'[x].step # "payload"
      BY <1>1, <2>3 DEF ReserveStandalone, Set, NoDelete
    <3>3. \A o \in Objects \ {"versions"} : store'[o] = store[o]
      BY <1>1, <2>3 DEF ReserveStandalone, Set
    <3> QED
      BY <1>1, <2>1, <3>1, <3>2, <3>3 DEF HistoryInv, HistoryKept, SourceBacked, Reservation, History
  <2>4. CASE DeletePayload(x) \/ DeleteSentinel(x) \/ DeleteMarker(x)
    <3>1. del[x].step = "payload"
      BY <2>4 DEF DeletePayload, DeleteSentinel, DeleteMarker
    <3>2. PICK o \in Payload \cup {"marker", "sentinel"} : Set(o, 0)
      BY <2>4 DEF DeletePayload, DeleteSentinel, DeleteMarker, Remaining
    <3>3. store'["versions"] = store["versions"]
      BY <1>1, <3>2 DEF Set
    <3>4. store["versions"] # History
      BY <1>1, <3>1 DEF Reservation, History
    <3>5. \A y \in Deleters : del'[y].step = "payload" => del[y].step = "payload"
      BY <1>1, <2>4, <3>1 DEF DeletePayload, DeleteSentinel, DeleteMarker, NoDelete, DeleteStates
    <3> QED
      BY <1>1, <2>1, <3>3, <3>4, <3>5 DEF HistoryInv, HistoryKept, SourceBacked
  <2> QED
    BY <1>6, <2>2, <2>3, <2>4 DEF DeleteProgress
<1>7. ASSUME NEW g \in Guards,
             \/ StartGuard(g, "protect") \/ StartGuard(g, "unprotect") \/ WriteSentinel(g)
             \/ Link \/ LosePage
      PROVE  HistoryInv' /\ HistoryKept
  <2>1. kind' = kind /\ del' = del
    BY <1>7 DEF StartGuard, WriteSentinel, Link, LosePage
  <2>2. CASE StartGuard(g, "protect") \/ StartGuard(g, "unprotect")
    BY <1>1, <1>3, <2>1, <2>2 DEF StartGuard
  <2>3. CASE WriteSentinel(g)
    <3>1. store' \in [Objects -> Nat] /\ \A o \in Objects \ {"sentinel"} : store'[o] = store[o]
      BY <1>1, <2>3 DEF WriteSentinel, Set
    <3> QED
      BY <1>1, <1>3, <2>1, <3>1
  <2>4. CASE Link
    <3>1. SourceBacked /\ store["versions"] = 0 /\ Set("versions", History)
      BY <2>4 DEF Link
    <3>2. \A x \in Deleters : ~(del[x].step = "payload" /\ SourceBacked)
      BY <1>1, <3>1 DEF Reservation
    <3>3. \A o \in Objects \ {"versions"} : store'[o] = store[o]
      BY <1>1, <3>1 DEF Set
    <3> QED
      BY <1>1, <2>1, <3>1, <3>2, <3>3 DEF HistoryInv, HistoryKept, SourceBacked, History
  <2>5. CASE LosePage
    <3>1. PICK p \in Pages : Set(p, 0)
      BY <2>5 DEF LosePage
    <3>2. store' \in [Objects -> Nat] /\ store'["versions"] = store["versions"]
      BY <1>1, <3>1 DEF Set
    <3>3. lost' # lost
      BY <2>5 DEF LosePage, Inv, Types
    <3> QED
      BY <1>3, <2>1, <3>2, <3>3
  <2> QED
    BY <1>7, <2>2, <2>3, <2>4, <2>5
<1> QED
  BY <1>2, <1>4, <1>5, <1>6, <1>7 DEF Next

(* Where nobody uploads or upgrades, objects of the payload only go.       *)
NobodyElse == Uploaders = {} /\ Upgraders = {}

LEMMA CleanNext ==
  ASSUME NobodyElse, Inv, CleanInv, [Next]_vars
  PROVE  CleanInv' /\ (SentinelLast \/ UNCHANGED vars)
<1>1. /\ store \in [Objects -> Nat] /\ del \in [Deleters -> DeleteStates] /\ grd \in [Guards -> GuardStates]
      /\ {"marker", "entry", "sentinel", "versions"} \cup Payload \cup Pages \subseteq Objects
      /\ Pages \subseteq Payload
      /\ \A o \in Payload : o \notin {"marker", "sentinel", "versions"}
      /\ \A x \in Deleters : del[x].step \in {"reserve", "payload"} =>
           \A o \in Payload : store[o] # 0 => o \in del[x].listing
      /\ store["marker"] = 0 => \A o \in Payload : store[o] = 0
  BY DEF Inv, Types, Objects, Payload, Pages, CleanInv
<1>2. CASE UNCHANGED vars
  BY <1>2 DEF vars, CleanInv
<1>3. ASSUME del' = del, \A o \in Payload : store[o] = 0 => store'[o] = 0,
             store'["marker"] = store["marker"]
      PROVE  CleanInv'
  BY <1>1, <1>3 DEF CleanInv
<1>4. ASSUME NEW x \in Deleters, DeleteProgress(x) \/ DeleteStops(x) PROVE CleanInv' /\ SentinelLast
  <2>1. del[x] \in DeleteStates
    BY <1>1
  <2>2. CASE PlanPurge(x) \/ ResolveMarker(x) \/ ListDirectory(x) \/ DeleteStops(x)
    <3>1. store' = store
      BY <2>2 DEF PlanPurge, ResolveMarker, ListDirectory, DeleteStops
    <3>2. \A y \in Deleters : del'[y].step \in {"reserve", "payload"} =>
            \/ del'[y] = del[y]
            \/ \A o \in Objects : store[o] # 0 => o \in del'[y].listing
      <4>1. CASE PlanPurge(x)
        BY <1>1, <4>1 DEF PlanPurge, DeleteStates
      <4>2. CASE ResolveMarker(x)
        BY <1>1, <4>2 DEF ResolveMarker, DeleteStates
      <4>3. CASE ListDirectory(x)
        BY <1>1, <4>3 DEF ListDirectory, DeleteStates, NoDelete
      <4>4. CASE DeleteStops(x)
        BY <1>1, <4>4 DEF DeleteStops, DeleteStates, NoDelete
      <4> QED
        BY <2>2, <4>1, <4>2, <4>3, <4>4
    <3> QED
      BY <1>1, <3>1, <3>2 DEF CleanInv, SentinelLast
  <2>3. CASE ReserveStandalone(x)
    <3>1. \A o \in Objects \ {"versions"} : store'[o] = store[o]
      BY <1>1, <2>3 DEF ReserveStandalone, Set
    <3>2. \A y \in Deleters : del'[y].step \in {"reserve", "payload"} =>
            del[y].step \in {"reserve", "payload"} /\ del'[y].listing = del[y].listing
      <4>1. del[x].step = "reserve" /\ \/ del' = [del EXCEPT ![x].step = "payload"]
                                       \/ del' = [del EXCEPT ![x] = NoDelete]
        BY <2>3 DEF ReserveStandalone
      <4> QED
        BY <1>1, <4>1 DEF DeleteStates, NoDelete
    <3> QED
      BY <1>1, <3>1, <3>2 DEF CleanInv, SentinelLast
  <2>4. CASE DeletePayload(x)
    <3>1. PICK o \in Remaining(x) : Set(o, 0) /\ del' = [del EXCEPT ![x].listing = @ \ {o}]
      BY <2>4 DEF DeletePayload
    <3>2. /\ o \in Payload /\ store'[o] = 0
          /\ \A p \in Objects : p # o => store'[p] = store[p]
      BY <1>1, <3>1 DEF Set, Remaining
    <3>3. \A y \in Deleters : /\ del'[y].step = del[y].step
                              /\ \A p \in del[y].listing : p = o \/ p \in del'[y].listing
      BY <1>1, <3>1 DEF DeleteStates
    <3> QED
      BY <1>1, <3>2, <3>3 DEF CleanInv, SentinelLast
  <2>5. CASE DeleteSentinel(x) \/ DeleteMarker(x)
    <3>1. del[x].step = "payload" /\ Remaining(x) = {}
      BY <2>5 DEF DeleteSentinel, DeleteMarker
    <3>2. \A o \in Payload : store[o] = 0
      BY <1>1, <3>1 DEF Remaining
    <3>3. \A o \in Payload : store'[o] = store[o]
      BY <1>1, <2>5 DEF DeleteSentinel, DeleteMarker, Set
    <3> QED
      BY <3>2, <3>3 DEF CleanInv, SentinelLast
  <2> QED
    BY <1>4, <2>2, <2>3, <2>4, <2>5 DEF DeleteProgress
<1>5. ASSUME NEW g \in Guards,
             \/ StartGuard(g, "protect") \/ StartGuard(g, "unprotect") \/ WriteSentinel(g)
             \/ Link \/ LosePage
      PROVE  CleanInv' /\ SentinelLast
  <2>1. del' = del
    BY <1>5 DEF StartGuard, WriteSentinel, Link, LosePage
  <2>2. CASE StartGuard(g, "protect") \/ StartGuard(g, "unprotect")
    BY <1>3, <2>1, <2>2 DEF StartGuard, SentinelLast
  <2>3. CASE WriteSentinel(g)
    <3>1. \A o \in Objects \ {"sentinel"} : store'[o] = store[o]
      BY <1>1, <2>3 DEF WriteSentinel, Set
    <3>2. grd' # grd
      BY <1>1, <2>3 DEF WriteSentinel
    <3> QED
      BY <1>1, <1>3, <2>1, <3>1, <3>2 DEF SentinelLast
  <2>4. CASE Link \/ LosePage
    <3>1. \/ Set("versions", History)
          \/ \E p \in Pages : Set(p, 0)
      BY <2>4 DEF Link, LosePage
    <3>2. /\ \A o \in Payload : store[o] = 0 => store'[o] = 0
          /\ store'["marker"] = store["marker"] /\ store'["sentinel"] = store["sentinel"]
      BY <1>1, <3>1 DEF Set
    <3> QED
      BY <1>3, <2>1, <3>2 DEF SentinelLast
  <2> QED
    BY <1>5, <2>2, <2>3, <2>4
<1> QED
  BY <1>2, <1>4, <1>5 DEF Next, NobodyElse

LEMMA InitDeletes ==
  Init => HistoryInv /\ (NobodyElse => CleanInv)
<1> SUFFICES ASSUME Init PROVE HistoryInv /\ (NobodyElse => CleanInv)
  OBVIOUS
<1>1. /\ "versions" \notin Declared(kind) /\ "versions" \in Objects /\ "marker" \in Objects
      /\ Payload \subseteq Objects
  BY DeclaredIsPayload DEF Init, Payload, Pages, Objects
<1>4. store["versions"] = 0 /\ \A x \in Deleters : del[x].step = "idle"
  BY <1>1, InitStore DEF Init, NoDelete
<1>5. store["marker"] = 0 => \A o \in Objects : store[o] = 0
  BY <1>1, InitStore
<1>2. HistoryInv
  BY <1>4 DEF HistoryInv, History
<1>3. NobodyElse => CleanInv
  BY <1>1, <1>4, <1>5 DEF CleanInv
<1> QED
  BY <1>2, <1>3

(* A document that got a revision history loses nothing to a deletion that *)
(* was under way, whatever uploads, upgrades and protections do.           *)
THEOREM HistoriesKept == Spec => [][HistoryKept]_vars
<1>1. Inv /\ HistoryInv /\ [Next]_vars => HistoryInv' /\ [HistoryKept]_vars
  BY HistoryNext
<1>2. Init => HistoryInv
  BY InitDeletes
<1> QED
  BY <1>1, <1>2, InvariantHolds, PTL DEF Spec

(* Once the marker is gone nothing of the payload is left, however many    *)
(* deletions of the upload overlap and wherever they stop.                 *)
THEOREM CleanWhenGone ==
  ASSUME Uploaders = {}, Upgraders = {}
  PROVE  Spec => []GoneIsClean
<1> USE DEF NobodyElse
<1>1. Inv /\ CleanInv /\ [Next]_vars => CleanInv'
  BY CleanNext
<1>2. Init => CleanInv
  BY InitDeletes
<1>3. CleanInv => GoneIsClean
  BY DEF CleanInv, GoneIsClean, Gone
<1> QED
  BY <1>1, <1>2, <1>3, InvariantHolds, PTL DEF Spec

(* The sentinel goes after the payload it protects, and a history loses    *)
(* nothing.                                                                *)
THEOREM DeletionsInOrder ==
  ASSUME Uploaders = {}, Upgraders = {}
  PROVE  Spec => DeletionOrder
<1> USE DEF NobodyElse
<1>1. Inv /\ HistoryInv /\ CleanInv /\ [Next]_vars
        => HistoryInv' /\ CleanInv' /\ [SentinelLast /\ HistoryKept]_vars
  BY CleanNext, HistoryNext
<1>2. Init => HistoryInv /\ CleanInv
  BY InitDeletes
<1> QED
  BY <1>1, <1>2, InvariantHolds, PTL DEF Spec, DeletionOrder

-----------------------------------------------------------------------------
(* Where nothing is deleted.                                               *)

(* An upgrade that does not stop goes on to its next instruction.          *)
LEMMA GoingOn ==
  ASSUME Inv, NEW u \in Upgraders, ~StopUpgrade(u),
         \/ ReadForPlan(u, "plan") \/ ReadForPlan(u, "fresh") \/ Decide(u) \/ Proceed(u)
  PROVE  upg'[u].pc = upg[u].pc + 1
<1> DEFINE m == upg[u]
           o == Subject(u)
<1>1. /\ upg \in [Upgraders -> UpgradeStates] /\ m \in UpgradeStates
      /\ m.plan \in [Objects -> Nat] /\ m.fresh \in [Objects -> Nat] /\ store \in [Objects -> Nat]
  BY DEF Inv, Types, UpgradeStates
<1>2. CASE ReadForPlan(u, "plan")
  <2> DEFINE plan == [m.plan EXCEPT ![o] = store[o]]
             n == [m EXCEPT !.pc = @ + 1, !.plan = plan]
  <2>1. o \in Objects
    BY <1>2, DoingOne DEF ReadForPlan
  <2>2. plan \in [Objects -> Nat]
    BY <1>1, <2>1
  <2>3. upg' = [upg EXCEPT ![u] = n]
    BY <1>2 DEF ReadForPlan
  <2> HIDE DEF plan
  <2>4. n.pc = m.pc + 1
    BY <1>1, <2>2, PlannedState
  <2> HIDE DEF n
  <2> QED
    BY <1>1, <2>3, <2>4
<1>3. CASE ReadForPlan(u, "fresh")
  <2> DEFINE fresh == [m.fresh EXCEPT ![o] = store[o]]
             n == [m EXCEPT !.pc = @ + 1, !.fresh = fresh]
  <2>1. o \in Objects
    BY <1>3, DoingOne DEF ReadForPlan
  <2>2. fresh \in [Objects -> Nat]
    BY <1>1, <2>1
  <2>3. upg' = [upg EXCEPT ![u] = n]
    BY <1>3 DEF ReadForPlan
  <2> HIDE DEF fresh
  <2>4. n.pc = m.pc + 1
    BY <1>1, <2>2, FreshState
  <2> HIDE DEF n
  <2> QED
    BY <1>1, <2>3, <2>4
<1>4. CASE Decide(u)
  <2> DEFINE n == [m EXCEPT !.pc = @ + 1, !.plan = Nothing]
  <2>1. upg' = [upg EXCEPT ![u] = n]
    BY <1>4 DEF Decide
  <2>2. Nothing \in [Objects -> Nat]
    BY DEF Nothing
  <2>3. n.pc = m.pc + 1
    BY <1>1, <2>2, PlannedState
  <2> HIDE DEF n
  <2> QED
    BY <1>1, <2>1, <2>3
<1>5. CASE Proceed(u)
  <2>1. upg' = [upg EXCEPT ![u] = Next1(m)] /\ Next1(m).pc = m.pc + 1
    BY <1>1, <1>5, NextState DEF Proceed, Next1
  <2> QED
    BY <1>1, <2>1
<1> QED
  BY <1>2, <1>3, <1>4, <1>5

(* How an upgrade gets on: with a source read it is there, and with a new  *)
(* page verified it is there.                                              *)
LEMMA GettingOn ==
  ASSUME Inv, Next, NEW v \in Upgraders
  PROVE  \/ upg'[v].pc <= 1
         \/ upg'[v].pc = upg[v].pc
         \/ /\ upg[v].pc \in Nat \ {0} /\ upg'[v].pc = upg[v].pc + 1
            /\ \A s \in Sources : Programs[kind][upg[v].pc] = <<"fresh", s>> => store[s] # 0
            /\ \A p \in Others : Programs[kind][upg[v].pc] = <<"new", p>> => store[p] # 0
<1>1. upg \in [Upgraders -> UpgradeStates] /\ upg[v] \in UpgradeStates
  BY DEF Inv, Types
<1>2. CASE upg' = upg
  BY <1>2
<1>3. CASE \E u \in Upgraders : UpgradeProgress(u) \/ UpgradeStops(u)
  <2>1. PICK u \in Upgraders : UpgradeProgress(u) \/ UpgradeStops(u)
    BY <1>3
  <2>2. CASE u # v
    <3>1. upg'[v] = upg[v]
      BY <1>1, <2>1, <2>2
      DEF UpgradeProgress, StartUpgrade, ReadForPlan, Decide, Spool, PutPlanned, Verify,
          FinishUpgrade, UpgradeStops, StopUpgrade, Proceed
    <3> QED
      BY <3>1
  <2>3. CASE u = v
    <3>1. CASE StopUpgrade(v) \/ StartUpgrade(v)
      <4>1. upg'[v].pc \in {0, 1}
        <5>1. CASE StopUpgrade(v)
          BY <1>1, <5>1 DEF StopUpgrade, NoUpgrade
        <5>2. CASE StartUpgrade(v)
          BY <1>1, <5>2 DEF StartUpgrade, UpgradeStates
        <5> QED
          BY <3>1, <5>1, <5>2
      <4> QED
        BY <4>1
    <3>2. CASE ReadForPlan(v, "plan") /\ ~StopUpgrade(v)
      <4>1. upg[v].pc \in Nat \ {0} /\ Programs[kind][upg[v].pc] = <<"plan", Subject(v)>>
        BY <3>2, DoingOne DEF ReadForPlan
      <4>2. upg'[v].pc = upg[v].pc + 1
        BY <3>2, GoingOn
      <4> QED
        BY <4>1, <4>2
    <3>3. CASE ReadForPlan(v, "fresh") /\ ~StopUpgrade(v)
      <4>1. upg[v].pc \in Nat \ {0} /\ Programs[kind][upg[v].pc] = <<"fresh", Subject(v)>>
        BY <3>3, DoingOne DEF ReadForPlan
      <4>2. upg'[v].pc = upg[v].pc + 1
        BY <3>3, GoingOn
      <4>3. Subject(v) \in Sources => store[Subject(v)] # 0
        BY <3>3 DEF ReadForPlan, Refused
      <4> QED
        BY <4>1, <4>2, <4>3
    <3>4. CASE Decide(v) /\ ~StopUpgrade(v)
      <4>1. upg[v].pc \in Nat \ {0} /\ Programs[kind][upg[v].pc] = <<"decide", Subject(v)>>
        BY <3>4, DoingOne DEF Decide
      <4>2. upg'[v].pc = upg[v].pc + 1
        BY <3>4, GoingOn
      <4> QED
        BY <4>1, <4>2
    <3>5. CASE (Spool(v) \/ PutPlanned(v)) /\ ~StopUpgrade(v)
      <4>1. PICK pass \in {"spool", "put"} : Doing(v, pass)
        BY <3>5 DEF Spool, PutPlanned
      <4>2. upg[v].pc \in Nat \ {0} /\ Programs[kind][upg[v].pc] = <<pass, Subject(v)>>
        BY <4>1, DoingOne
      <4>3. upg'[v].pc = upg[v].pc + 1
        BY <3>5, GoingOn DEF Spool, PutPlanned
      <4> QED
        BY <4>1, <4>2, <4>3
    <3>6. CASE Verify(v) /\ ~StopUpgrade(v)
      <4>1. PICK pass \in {"new", "same"} :
              Doing(v, pass) /\ (pass = "new" => store[Subject(v)] = Content(Release[v], Subject(v)))
        BY <3>6 DEF Verify
      <4>2. upg[v].pc \in Nat \ {0} /\ Programs[kind][upg[v].pc] = <<pass, Subject(v)>>
        BY <4>1, DoingOne
      <4>3. upg'[v].pc = upg[v].pc + 1
        BY <3>6, GoingOn DEF Verify
      <4>4. Content(Release[v], Subject(v)) # 0
        BY UpgradePuts
      <4> QED
        BY <4>1, <4>2, <4>3, <4>4
    <3> QED
      BY <2>1, <2>3, <3>1, <3>2, <3>3, <3>4, <3>5, <3>6
      DEF UpgradeProgress, FinishUpgrade, UpgradeStops
  <2> QED
    BY <2>2, <2>3
<1> QED
  BY <1>2, <1>3
  DEF Next, UploadProgress, PutMarkerFirst, PutPayload, PutEntryLast, UploadStops,
      DeleteProgress, PlanPurge, ResolveMarker, ListDirectory, ReserveStandalone, DeletePayload,
      DeleteSentinel, DeleteMarker, DeleteStep, DeleteStops, StartGuard, WriteSentinel, Link, LosePage

(* What is there stays there, but for pages other users remove.            *)
LEMMA Staying ==
  ASSUME Deleters = {}, Inv, Next
  PROVE  /\ kind' = kind /\ lost' \in Nat /\ lost \in Nat /\ lost' >= lost
         /\ \A o \in Objects \ {"sentinel"} :
              store[o] # 0 => store'[o] # 0 \/ (o \in Pages /\ lost' > 0)
<1>1. /\ store \in [Objects -> Nat] /\ up \in [Uploaders -> UploadStates]
      /\ lost \in 0..MaxLost /\ MaxLost \in Nat
      /\ {"marker", "entry", "sentinel", "versions"} \cup Payload \cup Pages \subseteq Objects
      /\ \A o \in Payload \cup Pages : o \notin {"marker", "sentinel", "versions"}
  BY FaultsAssumption DEF Inv, Types, Objects, Payload, Pages
<1>2. CASE \E c \in Uploaders : UploadProgress(c) \/ UploadStops(c)
  <2>1. kind' = kind /\ lost' = lost
    BY <1>2 DEF UploadProgress, PutMarkerFirst, PutPayload, PutEntryLast, UploadStops, Fault
  <2>2. store' = store \/ \E o \in Objects : Set(o, Content(Original, o))
    BY <1>1, <1>2 DEF UploadProgress, PutMarkerFirst, PutPayload, PutEntryLast, UploadStops, UploadStates
  <2> QED
    BY <1>1, <2>1, <2>2, UploadPuts DEF Set
<1>3. CASE \E u \in Upgraders : UpgradeProgress(u) \/ UpgradeStops(u)
  <2>1. PICK u \in Upgraders : UpgradeProgress(u) \/ UpgradeStops(u)
    BY <1>3
  <2>2. kind' = kind /\ lost' = lost
    BY <2>1 DEF UpgradeProgress, StartUpgrade, ReadForPlan, Decide, Spool, PutPlanned, Verify,
                FinishUpgrade, UpgradeStops, UpgradeStep, Fault
  <2>3. store' = store \/ Set(Subject(u), Content(Release[u], Subject(u)))
    BY <2>1 DEF UpgradeProgress, StartUpgrade, ReadForPlan, Decide, Spool, PutPlanned, Verify,
                FinishUpgrade, UpgradeStops
  <2>4. Content(Release[u], Subject(u)) \in Nat \ {0}
    BY UpgradePuts
  <2> QED
    BY <1>1, <2>2, <2>3, <2>4 DEF Set
<1>4. CASE \E g \in Guards : \/ StartGuard(g, "protect") \/ StartGuard(g, "unprotect") \/ WriteSentinel(g)
                            \/ Link \/ LosePage
  <2>1. CASE LosePage
    <3>1. kind' = kind /\ lost' = lost + 1
      BY <2>1 DEF LosePage
    <3>2. \E p \in Pages : Set(p, 0)
      BY <2>1 DEF LosePage
    <3> QED
      BY <1>1, <3>1, <3>2 DEF Set
  <2>2. CASE ~LosePage
    <3>1. kind' = kind /\ lost' = lost
      BY <1>4, <2>2 DEF StartGuard, WriteSentinel, Link
    <3>2. store' = store \/ Set("versions", History) \/ \E n \in {0, 1} : Set("sentinel", n)
      BY <1>4, <2>2 DEF StartGuard, WriteSentinel, Link
    <3> QED
      BY <1>1, <3>1, <3>2 DEF Set, History
  <2> QED
    BY <2>1, <2>2
<1> QED
  BY <1>2, <1>3, <1>4 DEF Next

LEMMA ShowNext ==
  ASSUME Deleters = {}, Inv, ShowInv, [Next]_vars
  PROVE  ShowInv'
<1>1. CASE UNCHANGED vars
  BY <1>1 DEF vars, ShowInv, There, Behind, Claimed
<1>2. CASE Next
  <2>1. /\ kind \in Kinds /\ kind' = kind /\ lost' \in Nat /\ lost \in Nat /\ lost' >= lost
        /\ \A o \in Objects \ {"sentinel"} :
             store[o] # 0 => store'[o] # 0 \/ (o \in Pages /\ lost' > 0)
    BY <1>2, Staying DEF Inv, Types
  <2>2. /\ store \in [Objects -> Nat] /\ up \in [Uploaders -> UploadStates]
        /\ upg \in [Upgraders -> UpgradeStates] /\ upg' \in [Upgraders -> UpgradeStates]
        /\ {"marker"} \cup Payload \cup Pages \cup Sources \cup Others \subseteq Objects \ {"sentinel"}
        /\ \A o \in Payload : o # "marker"
        /\ \A o \in Sources \cup {"marker"} : o \notin Pages
        /\ Declared(kind) \subseteq Payload
    BY <1>2, NextKeepsInv, DeclaredIsPayload DEF Inv, Types, Objects, Payload, Pages
  <2>3. /\ \A o \in Payload \cup Others : There(o) => There(o)'
        /\ \A s \in Sources : store[s] # 0 => store'[s] # 0
        /\ store["marker"] # 0 => store'["marker"] # 0
    BY <2>1, <2>2 DEF There
  <2>4. ASSUME NEW c \in Uploaders, up'[c].step = "payload",
               NEW o \in Declared(kind) \ {"entry"}
        PROVE  o \in up'[c].todo \/ There(o)'
    <3>1. CASE up' = up
      BY <2>2, <2>3, <2>4, <3>1 DEF ShowInv
    <3>2. CASE PutMarkerFirst(c)
      BY <2>2, <2>4, <3>2 DEF PutMarkerFirst
    <3>3. CASE PutPayload(c)
      <4>1. PICK q \in up[c].todo : /\ Set(q, Content(Original, q))
                                    /\ up' = [up EXCEPT ![c].todo = @ \ {q}]
        BY <3>3 DEF PutPayload
      <4>2. up[c].step = "payload" /\ (o \in up[c].todo \/ There(o))
        BY <2>4, <3>3 DEF PutPayload, ShowInv
      <4>3. up'[c].todo = up[c].todo \ {q}
        BY <2>2, <4>1 DEF UploadStates
      <4>4. o = q => store'[o] # 0
        BY <2>2, <2>4, <4>1, UploadPuts DEF Set
      <4> QED
        BY <2>2, <2>3, <2>4, <4>2, <4>3, <4>4 DEF There
    <3>4. CASE PutEntryLast(c) \/ UploadStops(c)
      BY <2>2, <2>4, <3>4 DEF PutEntryLast, UploadStops, UploadStates
    <3> QED
      BY <1>2, <3>1, <3>2, <3>3, <3>4, UploadersAssumption
      DEF Next, UploadProgress, UpgradeProgress, StartUpgrade, ReadForPlan, Decide, Spool, PutPlanned,
          Verify, FinishUpgrade, UpgradeStops, UpgradeStep, StartGuard, WriteSentinel, Link, LosePage
  <2>5. Claimed' => store'["marker"] # 0
    <3>1. CASE Claimed
      BY <2>3, <3>1 DEF ShowInv
    <3>2. CASE ~Claimed
      <4>1. PICK c \in Uploaders : up[c].step = "idle"
        BY <3>2 DEF Claimed
      <4>2. CASE PutMarkerFirst(c)
        BY <2>2, <4>2, UploadPuts DEF PutMarkerFirst, Set
      <4>3. CASE ~PutMarkerFirst(c)
        <5>1. up' = up
          BY <1>2, <4>1, <4>3, UploadersAssumption
          DEF Next, UploadProgress, PutPayload, PutEntryLast, UploadStops, UpgradeProgress, StartUpgrade,
              ReadForPlan, Decide, Spool, PutPlanned, Verify, FinishUpgrade, UpgradeStops, UpgradeStep,
              StartGuard, WriteSentinel, Link, LosePage
        <5> QED
          BY <4>1, <5>1 DEF Claimed
      <4> QED
        BY <4>2, <4>3
    <3> QED
      BY <3>1, <3>2
  <2>6. ASSUME NEW u \in Upgraders
        PROVE  /\ \A s \in Sources : Behind(kind, upg'[u].pc, "fresh", s) => store'[s] # 0
               /\ \A p \in Others : Behind(kind, upg'[u].pc, "new", p) => There(p)'
    <3>1. /\ \A s \in Sources : Behind(kind, upg[u].pc, "fresh", s) => store[s] # 0
          /\ \A p \in Others : Behind(kind, upg[u].pc, "new", p) => There(p)
      BY DEF ShowInv
    <3>2. CASE upg'[u].pc <= 1
      <4>1. upg'[u].pc \in Nat
        BY <2>2 DEF UpgradeStates
      <4> QED
        BY <2>1, <3>2, <4>1, BehindNothing
    <3>3. CASE upg'[u].pc = upg[u].pc
      BY <2>3, <3>1, <3>3
    <3>4. CASE /\ upg[u].pc \in Nat \ {0} /\ upg'[u].pc = upg[u].pc + 1
               /\ \A s \in Sources : Programs[kind][upg[u].pc] = <<"fresh", s>> => store[s] # 0
               /\ \A p \in Others : Programs[kind][upg[u].pc] = <<"new", p>> => store[p] # 0
      <4>1. \A pass, o : Behind(kind, upg[u].pc + 1, pass, o)
                           <=> Behind(kind, upg[u].pc, pass, o) \/ Programs[kind][upg[u].pc] = <<pass, o>>
        BY <2>1, <3>4, BehindNext
      <4>2. \A p \in Others : store[p] # 0 => There(p)
        BY DEF There
      <4> QED
        BY <2>3, <3>1, <3>4, <4>1, <4>2
    <3> QED
      BY <1>2, <3>2, <3>3, <3>4, GettingOn
  <2> QED
    BY <2>1, <2>4, <2>5, <2>6 DEF ShowInv
<1> QED
  BY <1>1, <1>2

LEMMA InitShow ==
  Init => ShowInv
<1> SUFFICES ASSUME Init PROVE ShowInv
  OBVIOUS
<1>1. \A c \in Uploaders : up[c].step = "idle"
  BY DEF Init, NoUpload
<1>2. Claimed => store["marker"] # 0
  BY <1>1, InitStore DEF Claimed, Objects
<1>3. \A u \in Upgraders : upg[u].pc = 0 /\ kind \in Kinds
  BY DEF Init, NoUpgrade
<1>4. \A u \in Upgraders : \A pass, o : ~Behind(kind, upg[u].pc, pass, o)
  BY <1>3, BehindNothing
<1> QED
  BY <1>1, <1>2, <1>4 DEF ShowInv

(* A command that is about to report success leaves a marker of its        *)
(* generation or a newer one, whatever other upgrades, the upload and      *)
(* other users did since it put its own.                                   *)
THEOREM SuccessIsReal ==
  ASSUME Deleters = {}
  PROVE  Spec => []SuccessHolds
<1>1. Inv /\ ShowInv => SuccessHolds
  <2> SUFFICES ASSUME Inv, ShowInv, NEW u \in Upgraders, Succeeding(u)
               PROVE  store["marker"] # 0 /\ Gen(store["marker"]) >= Gen(Release[u])
    BY DEF SuccessHolds
  <2>1. /\ kind \in Kinds /\ upg[u] \in UpgradeStates /\ store["marker"] \in Nat
        /\ Release[u] \in Nat \ {0}
    BY ReleaseFacts DEF Inv, Types, Objects
  <2>2. Programs[kind] \in Seq(Instructions) /\ Has(Programs[kind], <<"put", "marker">>)
    BY <2>1, ProgramOrder
  <2>3. /\ DOMAIN Programs[kind] = 1..Len(Programs[kind]) /\ Len(Programs[kind]) \in Nat
        /\ upg[u].pc = Len(Programs[kind]) + 1
    BY <2>2, LenProperties DEF Succeeding, Program
  <2>4. PICK i \in 1..(upg[u].pc - 1) : Programs[kind][i] = <<"put", "marker">>
    BY <2>2, <2>3 DEF Has
  <2>5. Behind(kind, upg[u].pc, "put", "marker") /\ ~(upg[u].pc <= 1)
    BY <2>3, <2>4 DEF Behind
  <2>6. store["marker"] = 0 \/ Gen(Release[u]) <= Gen(store["marker"])
    BY <2>5 DEF Inv, Knows
  <2>7. store["marker"] # 0
    BY <2>5 DEF Inv, NothingYet, ShowInv
  <2> QED
    BY <2>1, <2>6, <2>7, GenFacts
<1>2. Inv /\ ShowInv /\ [Next]_vars => ShowInv'
  BY ShowNext
<1> QED
  BY <1>1, <1>2, InitShow, InvariantHolds, PTL DEF Spec

-----------------------------------------------------------------------------
(* UploadDirectory implements PublishedUpload.                             *)

(* What the world sees does not depend on contents, on the sentinel and on *)
(* the history.                                                            *)
LEMMA Unseen ==
  ASSUME kind' = kind, lost' = lost, Claimed' <=> Claimed,
         \A o \in {"marker"} \cup Payload : store[o] = 0 <=> store'[o] = 0
  PROVE  UNCHANGED <<Phase, Whole, Empty, Shown>>
<1>1. Pages \cup Sources \subseteq Payload /\ "entry" \in Payload
  BY DEF Payload, Pages
<1>2. UNCHANGED Linked /\ Linked \subseteq Payload
  BY <1>1 DEF Linked
<1>3. Phase' = Phase
  BY DEF Phase
<1>4. Whole' = Whole
  BY <1>2 DEF Whole
<1>5. Empty' = Empty
  BY DEF Empty
<1>6. Shown' = Shown
  BY <1>1 DEF Shown
<1> QED
  BY <1>3, <1>4, <1>5, <1>6

(* A page or the payload of a directory that is held is removed.           *)
LEMMA Withdrawing ==
  ASSUME Inv, Claimed, Claimed', store["marker"] # 0, NEW o \in Payload, Set(o, 0)
  PROVE  Lifecycle!Withdraw
<1>1. /\ store \in [Objects -> Nat] /\ {"marker", "entry"} \cup Payload \subseteq Objects
      /\ o # "marker"
  BY DEF Inv, Types, Objects, Payload, Pages
<1>2. \A p \in Objects : store'[p] = IF p = o THEN 0 ELSE store[p]
  BY <1>1 DEF Set
<1>3. Phase = "held" /\ Phase' = "held"
  BY <1>1, <1>2 DEF Phase
<1>4. Shown' => Shown
  BY <1>1, <1>2 DEF Shown
<1>5. Empty => Empty'
  BY <1>1, <1>2 DEF Empty
<1>6. Whole' \in BOOLEAN
  BY DEF Whole
<1> QED
  BY <1>3, <1>4, <1>5, <1>6 DEF Lifecycle!Withdraw

(* Something other than the entry page is put in a directory that is held. *)
LEMMA Filling ==
  ASSUME Inv, kind' = kind, lost' = lost, Claimed, Claimed', store["marker"] # 0,
         NEW o \in Payload \ {"entry"}, NEW n \in Nat \ {0}, Set(o, n)
  PROVE  Lifecycle!Fill
<1>1. /\ store \in [Objects -> Nat] /\ {"marker", "entry"} \cup Payload \subseteq Objects
      /\ o # "marker"
      /\ Pages \cup Sources \subseteq Payload
  BY DEF Inv, Types, Objects, Payload, Pages
<1>2. \A p \in Objects : store'[p] = IF p = o THEN n ELSE store[p]
  BY <1>1 DEF Set
<1>3. Phase = "held" /\ Phase' = "held"
  BY <1>1, <1>2 DEF Phase
<1>4. Shown' = Shown
  BY <1>1, <1>2 DEF Shown
<1>5. Empty' = FALSE
  BY <1>1, <1>2 DEF Empty
<1>6. Whole => Whole'
  <2>1. Linked' = Linked /\ Linked \subseteq Objects
    BY <1>1 DEF Linked
  <2> QED
    BY <1>1, <1>2, <2>1 DEF Whole
<1> QED
  BY <1>3, <1>4, <1>5, <1>6 DEF Lifecycle!Fill

(* The entry page is put where everything it leads to is there.            *)
LEMMA Showing ==
  ASSUME Inv, kind' = kind, lost' = lost, Claimed, Claimed', store["marker"] # 0, Whole,
         NEW n \in Nat \ {0}, Set("entry", n)
  PROVE  Lifecycle!Show
<1>1. /\ store \in [Objects -> Nat] /\ {"marker", "entry"} \cup Payload \subseteq Objects
      /\ Pages \cup Sources \subseteq Payload /\ "entry" \in Payload
  BY DEF Inv, Types, Objects, Payload, Pages
<1>2. \A p \in Objects : store'[p] = IF p = "entry" THEN n ELSE store[p]
  BY <1>1 DEF Set
<1>3. Phase = "held" /\ Phase' = "held"
  BY <1>1, <1>2 DEF Phase
<1>4. Shown' = TRUE
  BY <1>1, <1>2 DEF Shown
<1>5. Empty' = FALSE
  BY <1>1, <1>2 DEF Empty
<1>6. Whole' = Whole
  <2>1. Linked' = Linked /\ Linked \subseteq Objects \ {"entry"}
    BY <1>1 DEF Linked
  <2> QED
    BY <1>1, <1>2, <2>1 DEF Whole
<1> QED
  BY <1>3, <1>4, <1>5, <1>6 DEF Lifecycle!Show

(* A step of the program is a step of the published upload, or none.       *)
Seen == Lifecycle!Next \/ UNCHANGED <<Phase, Whole, Empty, Shown>>

LEMMA UploadSeen ==
  ASSUME Inv, ShowInv, NEW c \in Uploaders, UploadProgress(c) \/ UploadStops(c)
  PROVE  Seen
<1>1. /\ store \in [Objects -> Nat] /\ up \in [Uploaders -> UploadStates] /\ kind \in Kinds
      /\ {"marker", "entry"} \cup Payload \subseteq Objects
      /\ Pages \cup Sources \subseteq Payload /\ "marker" \notin Payload
  BY DEF Inv, Types, Objects, Payload, Pages
<1>2. CASE PutMarkerFirst(c)
  <2>1. /\ kind' = kind /\ lost' = lost /\ ~Claimed
        /\ Set("marker", Content(Original, "marker"))
        /\ up' = [up EXCEPT ![c] = [step |-> "payload", todo |-> Declared(kind) \ {"entry"}]]
    BY <1>2 DEF PutMarkerFirst, Claimed
  <2>2. Claimed'
    BY <1>1, <2>1, UploadersAssumption DEF Claimed
  <2>3. store'["marker"] # 0 /\ \A o \in Payload : store'[o] = store[o]
    BY <1>1, <2>1, UploadPuts DEF Set
  <2>4. Phase = "free" /\ Phase' = "held"
    BY <2>1, <2>2, <2>3 DEF Phase
  <2>5. Whole' = Whole
    <3>1. Linked' = Linked /\ Linked \subseteq Payload
      BY <1>1, <2>1 DEF Linked
    <3> QED
      BY <2>1, <2>3, <3>1 DEF Whole
  <2>6. Empty' = Empty
    BY <2>3 DEF Empty
  <2>7. Shown' = Shown
    BY <1>1, <2>3 DEF Shown, Payload, Pages
  <2>8. Lifecycle!Claim
    BY <2>4, <2>5, <2>6, <2>7 DEF Lifecycle!Claim
  <2> QED
    BY <2>8 DEF Seen, Lifecycle!Next
<1>3. CASE up[c].step = "payload"
  <2>1. Claimed /\ store["marker"] # 0
    BY <1>3, UploadersAssumption DEF Claimed, ShowInv
  <2>2. kind' = kind /\ lost' = lost /\ ~PutMarkerFirst(c)
    BY <1>3 DEF UploadProgress, PutMarkerFirst, PutPayload, PutEntryLast, UploadStops, Fault
  <2>3. Claimed'
    <3>1. up'[c].step # "idle"
      BY <1>1, <1>3, <2>2 DEF UploadProgress, PutPayload, PutEntryLast, UploadStops, UploadStates
    <3> QED
      BY <3>1, UploadersAssumption DEF Claimed
  <2>4. CASE PutPayload(c)
    <3>1. PICK o \in up[c].todo : Set(o, Content(Original, o))
      BY <2>4 DEF PutPayload
    <3>2. o \in Payload \ {"entry"}
      BY <1>1, <1>3, DeclaredIsPayload DEF Inv, UploadOK
    <3>3. Content(Original, o) \in Nat \ {0}
      BY <1>1, <3>2, UploadPuts
    <3> QED
      BY <2>1, <2>2, <2>3, <3>1, <3>2, <3>3, Filling DEF Seen, Lifecycle!Next
  <2>5. CASE PutEntryLast(c)
    <3>1. Set("entry", Content(Original, "entry")) /\ up[c].todo = {}
      BY <2>5 DEF PutEntryLast
    <3>2. \A o \in Declared(kind) \ {"entry"} : There(o)
      BY <1>3, <3>1 DEF ShowInv
    <3>3. lost \in Nat
      BY FaultsAssumption DEF Inv, Types
    <3>4. Whole
      BY <3>2, <3>3 DEF Whole, Linked, There
    <3>5. Content(Original, "entry") \in Nat \ {0}
      BY <1>1, UploadPuts
    <3> QED
      BY <2>1, <2>2, <2>3, <3>1, <3>4, <3>5, Showing DEF Seen, Lifecycle!Next
  <2>6. CASE UploadStops(c)
    <3>1. store' = store
      BY <2>6 DEF UploadStops
    <3> QED
      BY <2>1, <2>2, <2>3, <3>1, Unseen DEF Seen
  <2> QED
    BY <2>2, <2>4, <2>5, <2>6 DEF UploadProgress
<1> QED
  BY <1>2, <1>3 DEF UploadProgress, PutPayload, PutEntryLast, UploadStops

LEMMA UpgradeSeen ==
  ASSUME Inv, ShowInv, NEW u \in Upgraders, UpgradeProgress(u) \/ UpgradeStops(u)
  PROVE  Seen
<1>1. kind' = kind /\ lost' = lost /\ up' = up
  BY DEF UpgradeProgress, StartUpgrade, ReadForPlan, Decide, Spool, PutPlanned, Verify,
         FinishUpgrade, UpgradeStops, UpgradeStep, Fault
<1>2. Claimed' <=> Claimed
  BY <1>1 DEF Claimed
<1>3. CASE store' = store
  BY <1>1, <1>2, <1>3, Unseen DEF Seen
<1>4. CASE store' # store
  <2> DEFINE o == Subject(u)
  <2> DEFINE w == Content(Release[u], o)
  <2>1. Doing(u, "put") /\ Set(o, w)
    BY <1>4 DEF UpgradeProgress, StartUpgrade, ReadForPlan, Decide, Spool, PutPlanned, Verify,
                FinishUpgrade, UpgradeStops
  <2>2. /\ Claimed /\ upg[u].pc \in DOMAIN Programs[kind] /\ kind \in Kinds
        /\ Programs[kind][upg[u].pc] = <<"put", o>>
    BY <2>1, DoingOne DEF Inv, Types
  <2>3. o \in {"marker"} \cup Pages
    BY <2>2, ProgramOrder DEF Has
  <2>4. w \in Nat \ {0} /\ store["marker"] # 0 /\ Claimed'
    BY <1>2, <2>2, UpgradePuts DEF ShowInv
  <2> HIDE DEF w
  <2>5. CASE o = "marker"
    <3>1. store \in [Objects -> Nat] /\ "marker" \in Objects /\ "marker" \notin Payload
      BY DEF Inv, Types, Objects, Payload, Pages
    <3>2. \A p \in {"marker"} \cup Payload : store[p] = 0 <=> store'[p] = 0
      BY <2>1, <2>4, <2>5, <3>1 DEF Set
    <3> QED
      BY <1>1, <1>2, <3>2, Unseen DEF Seen
  <2>6. CASE o = "entry"
    <3>1. \A s \in Sources : store[s] # 0
      <4>1. \A s \in Sources : Before(Programs[kind], <<"fresh", s>>, <<"put", o>>)
        BY <2>2, ProgramOrder
      <4>2. \A s \in Sources : Behind(kind, upg[u].pc, "fresh", s)
        BY <2>1, <4>1, DoneBefore
      <4> QED
        BY <4>2 DEF ShowInv
    <3>2. \A p \in Others \cap Declared(kind) : There(p)
      <4>1. \A p \in Others \cap Declared(kind) : Before(Programs[kind], <<"new", p>>, <<"put", o>>)
        BY <2>2, <2>6, ProgramOrder
      <4>2. \A p \in Others \cap Declared(kind) : Behind(kind, upg[u].pc, "new", p)
        BY <2>1, <4>1, DoneBefore
      <4> QED
        BY <4>2 DEF ShowInv
    <3>3. Whole
      BY <3>1, <3>2 DEF Whole, Linked, There, Pages
    <3> QED
      BY <1>1, <2>1, <2>2, <2>4, <2>6, <3>3, Showing DEF Seen, Lifecycle!Next
  <2>7. CASE o \notin {"marker", "entry"}
    <3>1. o \in Payload \ {"entry"}
      BY <2>3, <2>7 DEF Payload
    <3> QED
      BY <1>1, <2>1, <2>2, <2>4, <3>1, Filling DEF Seen, Lifecycle!Next
  <2> QED
    BY <2>5, <2>6, <2>7
<1> QED
  BY <1>3, <1>4

(* Other users, where nothing is left without a marker.                    *)
LEMMA OthersSeen ==
  ASSUME Inv, NEW g \in Guards,
         Claimed /\ store["marker"] = 0 => \A o \in Payload : store[o] = 0,
         \/ StartGuard(g, "protect") \/ StartGuard(g, "unprotect") \/ WriteSentinel(g)
         \/ Link \/ LosePage
  PROVE  Seen
<1>1. /\ store \in [Objects -> Nat] /\ {"marker", "sentinel", "versions"} \cup Payload \subseteq Objects
      /\ Pages \subseteq Payload /\ \A o \in Payload \cup {"marker"} : o \notin {"sentinel", "versions"}
  BY DEF Inv, Types, Objects, Payload, Pages
<1>2. kind' = kind /\ up' = up
  BY DEF StartGuard, WriteSentinel, Link, LosePage
<1>3. Claimed' <=> Claimed
  BY <1>2 DEF Claimed
<1>4. CASE ~LosePage
  <2>1. lost' = lost
    BY <1>4 DEF StartGuard, WriteSentinel, Link
  <2>2. store' = store \/ \E n : Set("sentinel", n) \/ Set("versions", n)
    BY <1>4 DEF StartGuard, WriteSentinel, Link
  <2>3. \A o \in {"marker"} \cup Payload : store[o] = 0 <=> store'[o] = 0
    BY <1>1, <2>2 DEF Set
  <2> QED
    BY <1>2, <1>3, <2>1, <2>3, Unseen DEF Seen
<1>5. CASE LosePage
  <2>1. PICK p \in Pages : store[p] # 0 /\ Set(p, 0)
    BY <1>5 DEF LosePage
  <2>2. Claimed /\ store["marker"] # 0 /\ p \in Payload
    BY <1>1, <2>1 DEF Inv, NothingYet
  <2>3. Lifecycle!Withdraw
    BY <1>3, <2>1, <2>2, Withdrawing
  <2> QED
    BY <2>3 DEF Seen, Lifecycle!Next
<1> QED
  BY <1>4, <1>5

LEMMA DeleteSeen ==
  ASSUME NobodyElse, Inv, CleanInv, NEW x \in Deleters, DeleteProgress(x) \/ DeleteStops(x)
  PROVE  Seen
<1>1. /\ store \in [Objects -> Nat]
      /\ {"marker", "entry", "sentinel", "versions"} \cup Payload \subseteq Objects
      /\ \A o \in Payload \cup {"marker"} : o \notin {"sentinel", "versions"}
      /\ "marker" \notin Payload /\ Pages \cup Sources \subseteq Payload
  BY DEF Inv, Types, Objects, Payload, Pages
<1>2. kind' = kind /\ lost' = lost /\ Claimed /\ Claimed'
  BY DEF NobodyElse, Claimed, DeleteProgress, PlanPurge, ResolveMarker, ListDirectory,
         ReserveStandalone, DeletePayload, DeleteSentinel, DeleteMarker, DeleteStops, DeleteStep, Fault
<1>3. CASE DeletePayload(x)
  <2>1. PICK o \in Payload : Set(o, 0)
    BY <1>3 DEF DeletePayload, Remaining
  <2>2. CASE store["marker"] # 0
    BY <1>2, <2>1, <2>2, Withdrawing DEF Seen, Lifecycle!Next
  <2>3. CASE store["marker"] = 0
    <3>1. \A p \in {"marker"} \cup Payload : store[p] = 0 <=> store'[p] = 0
      BY <1>1, <2>1, <2>3 DEF Set, CleanInv
    <3> QED
      BY <1>2, <3>1, Unseen DEF Seen
  <2> QED
    BY <2>2, <2>3
<1>4. CASE DeleteMarker(x)
  <2>1. /\ Set("marker", 0) /\ del[x].step = "payload" /\ Remaining(x) = {}
    BY <1>4 DEF DeleteMarker
  <2>2. \A o \in Payload : store[o] = 0
    BY <2>1 DEF CleanInv, Remaining
  <2>3. store'["marker"] = 0 /\ \A o \in Payload : store'[o] = store[o]
    BY <1>1, <2>1 DEF Set
  <2>4. CASE store["marker"] = 0
    <3>1. \A o \in {"marker"} \cup Payload : store[o] = 0 <=> store'[o] = 0
      BY <2>3, <2>4
    <3> QED
      BY <1>2, <3>1, Unseen DEF Seen
  <2>5. CASE store["marker"] # 0
    <3>1. Phase = "held" /\ Phase' = "gone"
      BY <1>2, <2>3, <2>5 DEF Phase
    <3>2. Empty /\ Empty' = Empty
      BY <2>2, <2>3 DEF Empty
    <3>3. Shown' = Shown
      BY <2>3 DEF Shown, Payload, Pages
    <3>4. Whole' = Whole
      <4>1. Linked' = Linked /\ Linked \subseteq Payload
        BY <1>1, <1>2 DEF Linked
      <4> QED
        BY <1>2, <2>3, <4>1 DEF Whole
    <3>5. Lifecycle!GiveUp
      BY <3>1, <3>2, <3>3, <3>4 DEF Lifecycle!GiveUp
    <3> QED
      BY <3>5 DEF Seen, Lifecycle!Next
  <2> QED
    BY <2>4, <2>5
<1>5. CASE ~DeletePayload(x) /\ ~DeleteMarker(x)
  <2>1. store' = store \/ \E n : Set("sentinel", n) \/ Set("versions", n)
    BY <1>5 DEF DeleteProgress, PlanPurge, ResolveMarker, ListDirectory, ReserveStandalone,
                DeleteSentinel, DeleteStops
  <2>2. \A o \in {"marker"} \cup Payload : store[o] = 0 <=> store'[o] = 0
    BY <1>1, <2>1 DEF Set
  <2> QED
    BY <1>2, <2>2, Unseen DEF Seen
<1> QED
  BY <1>3, <1>4, <1>5

LEMMA InitSeen ==
  Init => Lifecycle!Init
<1> SUFFICES ASSUME Init PROVE Lifecycle!Init
  OBVIOUS
<1>1. /\ "entry" \in Payload /\ "marker" \in Objects /\ Payload \subseteq Objects
      /\ Linked \subseteq Declared(kind) /\ Linked \subseteq Payload /\ "entry" \in Declared(kind)
  BY KindsAssumption
  DEF Init, Payload, Pages, Objects, Linked, Declared, DeclaredByDocument, DeclaredByFiles, DeclaredByUpload
<1>2. Whole \in BOOLEAN /\ Empty \in BOOLEAN /\ Shown \in BOOLEAN
  BY DEF Whole, Empty, Shown
<1>3. CASE Uploaders = {}
  <2>1. \A o \in {"marker"} \cup Declared(kind) : o \in Objects => store[o] # 0
    BY <1>3, UploadPuts DEF Init
  <2>2. Phase = "held"
    BY <1>1, <1>3, <2>1 DEF Phase, Claimed
  <2>3. Shown /\ ~Empty
    BY <1>1, <2>1 DEF Shown, Empty
  <2>4. Whole
    <3>1. \A o \in Linked : o \in Declared(kind) /\ o \in Objects
      BY <1>1
    <3>2. \A o \in Linked : store[o] # 0
      BY <2>1, <3>1
    <3> QED
      BY <3>2 DEF Whole
  <2> QED
    BY <1>2, <2>2, <2>3, <2>4 DEF Lifecycle!Init
<1>4. CASE Uploaders # {}
  <2>1. \A o \in Objects : store[o] = 0
    BY <1>4 DEF Init
  <2>2. Phase = "free"
    BY <1>4 DEF Init, Phase, Claimed, NoUpload
  <2>3. ~Shown /\ Empty
    BY <1>1, <2>1 DEF Shown, Empty
  <2>4. Phase \in {"free", "held"} /\ (Shown => Whole /\ ~Empty) /\ (Phase = "free" => Empty)
    BY <2>2, <2>3
  <2> QED
    BY <1>2, <2>4 DEF Lifecycle!Init
<1> QED
  BY <1>3, <1>4

LEMMA NothingSeen ==
  ASSUME UNCHANGED vars
  PROVE  Seen
<1>1. kind' = kind /\ lost' = lost /\ store' = store
  BY DEF vars
<1>2. Claimed' <=> Claimed
  BY DEF vars, Claimed
<1> QED
  BY <1>1, <1>2, Unseen DEF Seen

(* What the world sees of an upload directory is the life of a published   *)
(* upload: it is claimed once, its entry page is shown only while all it   *)
(* leads to is there, and it is given up for good and clean.  This holds   *)
(* of uploads and upgrades where nothing is deleted, and of deletions      *)
(* where nobody uploads or upgrades meanwhile.                             *)
THEOREM Implements ==
  ASSUME Deleters = {} \/ NobodyElse
  PROVE  Spec => LivesOnce
<1>1. CASE Deleters = {}
  <2>1. Inv /\ ShowInv /\ [Next]_vars => ShowInv' /\ [Lifecycle!Next]_(Lifecycle!vars)
    <3> SUFFICES ASSUME Inv, ShowInv, [Next]_vars PROVE ShowInv' /\ Seen
      BY DEF Seen, Lifecycle!vars
    <3>1. ShowInv'
      BY <1>1, ShowNext
    <3>2. CASE UNCHANGED vars
      BY <3>1, <3>2, NothingSeen
    <3>3. CASE Next
      <4>1. Claimed /\ store["marker"] = 0 => \A o \in Payload : store[o] = 0
        BY DEF ShowInv
      <4> QED
        BY <1>1, <3>1, <3>3, <4>1, UploadSeen, UpgradeSeen, OthersSeen DEF Next
    <3> QED
      BY <3>1, <3>2, <3>3
  <2> QED
    BY <2>1, InitShow, InitSeen, InvariantHolds, PTL DEF Spec, LivesOnce, Lifecycle!Spec
<1>2. CASE NobodyElse
  <2>1. Inv /\ CleanInv /\ [Next]_vars => CleanInv' /\ [Lifecycle!Next]_(Lifecycle!vars)
    <3> SUFFICES ASSUME Inv, CleanInv, [Next]_vars PROVE CleanInv' /\ Seen
      BY DEF Seen, Lifecycle!vars
    <3>1. CleanInv'
      BY <1>2, CleanNext
    <3>2. CASE UNCHANGED vars
      BY <3>1, <3>2, NothingSeen
    <3>3. CASE Next
      <4>1. Claimed /\ store["marker"] = 0 => \A o \in Payload : store[o] = 0
        BY DEF CleanInv
      <4>2. Uploaders = {} /\ Upgraders = {}
        BY <1>2 DEF NobodyElse
      <4> QED
        BY <1>2, <3>1, <3>3, <4>1, <4>2, DeleteSeen, OthersSeen DEF Next
    <3> QED
      BY <3>1, <3>2, <3>3
  <2>2. Init => CleanInv
    BY <1>2, InitDeletes
  <2> QED
    BY <2>1, <2>2, InitSeen, InvariantHolds, PTL DEF Spec, LivesOnce, Lifecycle!Spec
<1> QED
  BY <1>1, <1>2
=============================================================================
