---------------------------- MODULE ScansProofs -----------------------------
(***************************************************************************)
(* Full scans and folder scans, proved.                                    *)
(*                                                                         *)
(* FullScans, for every listing, every limit and size that may be asked    *)
(* for, any concurrency and any number of failures: a scan that reports    *)
(* its end has asked for each file once, and it keeps to its limit.        *)
(*                                                                         *)
(* FolderScan, for any files and names, any number of scans and of their   *)
(* workers, and any failures: the summary of a scan is true of its files,  *)
(* and no file is lost on the way to quarantine.                           *)
(***************************************************************************)
EXTENDS Scans, FiniteSets, Functions, FiniteSetTheorems, SequenceTheorems, TLAPS

\* What the instances call by their own names.
LEMMA FullNames ==
  /\ \A S : Full!Cardinality(S) = Cardinality(S)
  /\ \A f : Full!Range(f) = Range(f)
  /\ Full!Objects = DOMAIN Kinds
  BY DEF Full!Cardinality, Cardinality, Full!Range, Range, Full!Objects

LEMMA FolderNames ==
  \A S : Folder!Cardinality(S) = Cardinality(S) /\ (Folder!IsFiniteSet(S) <=> IsFiniteSet(S))
  BY DEF Folder!Cardinality, Cardinality, Folder!IsFiniteSet, IsFiniteSet

\* What ScansAssumption says.
LEMMA FullConstants ==
  /\ Kinds \in Seq({"file", "quarantine", "filtered"})
  /\ Limits \subseteq Nat /\ Requested \subseteq Nat
  /\ DefaultSize \in Nat \ {0} /\ MaxSize \in Nat \ {0}
  /\ Concurrency \in Nat \ {0} /\ GatherAt \in Nat \ {0}
  /\ MaxFaults \in Nat
  BY ScansAssumption DEF Full!FullAssumption

LEMMA FolderConstants ==
  /\ IsFiniteSet(Files) /\ MaxMishaps \in Nat
  /\ Plans \subseteq [folder : SUBSET Files, concurrency : Nat \ {0}, jobs : Nat]
  BY ScansAssumption, FolderNames DEF Folder!FolderAssumption

Stages == {"list", "bound", "flush", "await", "gather", "rest", "report", "done", "unreported"}
CallSet == [objs : SUBSET Full!Objects, at : {"waiting", "check", "post"}]
Outcomes == {"none", "skipped", "held", "queued", "refused", "lost"}

\* The shape of the state.
FullType ==
    /\ platform \in Full!Platforms /\ limit \in Nat /\ batch \in BOOLEAN /\ size \in Nat
    /\ at \in Stages /\ listing \in BOOLEAN
    /\ next \in Nat \ {0} /\ next <= Len(Kinds) + 1 /\ seen \in Nat /\ items \in Seq(Full!Objects)
    /\ calls \subseteq CallSet /\ tasks \in Nat /\ count \in Nat
    /\ asked \in [Full!Objects -> Nat] /\ answer \in [Full!Objects -> Outcomes]
    /\ broken \in BOOLEAN /\ troubles \in Nat

LEMMA ObjectFacts ==
  /\ Len(Kinds) \in Nat /\ Full!Objects = 1 .. Len(Kinds) /\ IsFiniteSet(Full!Objects)
  /\ Kinds \in [Full!Objects -> {"file", "quarantine", "filtered"}]
<1>1. Kinds \in Seq({"file", "quarantine", "filtered"})
  BY FullConstants
<1>2. Len(Kinds) \in Nat /\ Full!Objects = 1 .. Len(Kinds)
  BY <1>1, LenProperties DEF Full!Objects
<1>3. Kinds \in [Full!Objects -> {"file", "quarantine", "filtered"}]
  BY <1>1, <1>2, LenProperties
<1>4. IsFiniteSet(1 .. Len(Kinds))
  BY <1>2, FS_Interval
<1> QED
  BY <1>2, <1>3, <1>4

\* The elements of a sequence of objects.
LEMMA Elements ==
  ASSUME NEW s \in Seq(Full!Objects)
  PROVE  /\ Len(s) \in Nat /\ DOMAIN s = 1 .. Len(s) /\ \A i \in 1 .. Len(s) : s[i] \in Full!Objects
         /\ Range(s) = {s[i] : i \in 1 .. Len(s)} /\ Range(s) \subseteq Full!Objects
         /\ IsFiniteSet(Range(s)) /\ Cardinality(Range(s)) <= Len(s)
         /\ (\A i, j \in 1 .. Len(s) : s[i] = s[j] => i = j) => Cardinality(Range(s)) = Len(s)
<1>1. /\ Len(s) \in Nat /\ DOMAIN s = 1 .. Len(s) /\ \A i \in 1 .. Len(s) : s[i] \in Full!Objects
      /\ s \in [1 .. Len(s) -> Full!Objects]
  BY LenProperties
<1>2. Range(s) = {s[i] : i \in 1 .. Len(s)}
  BY <1>1 DEF Range
<1>3. s \in Surjection(1 .. Len(s), Range(s))
  BY <1>1, <1>2 DEF Surjection
<1>4. IsFiniteSet(1 .. Len(s)) /\ Cardinality(1 .. Len(s)) = Len(s)
  <2>1. IsFiniteSet(1 .. Len(s))
    BY <1>1, FS_Interval
  <2>2. Cardinality(1 .. Len(s)) = IF 1 > Len(s) THEN 0 ELSE Len(s) - 1 + 1
    BY <1>1, FS_Interval
  <2> QED
    BY <1>1, <2>1, <2>2
<1>5. IsFiniteSet(Range(s)) /\ Cardinality(Range(s)) <= Len(s)
  BY <1>3, <1>4, FS_Surjection
<1>6. ASSUME \A i, j \in 1 .. Len(s) : s[i] = s[j] => i = j
      PROVE  Cardinality(Range(s)) = Len(s)
  <2>1. s \in Injection(1 .. Len(s), Range(s))
    BY <1>1, <1>2, <1>6 DEF Injection, IsInjective
  <2> QED
    BY <1>3, <1>4, <2>1, FS_Surjection
<1> QED
  BY <1>1, <1>2, <1>5, <1>6

LEMMA Joining ==
  ASSUME NEW s \in Seq(Full!Objects), NEW o \in Full!Objects
  PROVE  /\ Append(s, o) \in Seq(Full!Objects) /\ Len(Append(s, o)) = Len(s) + 1
         /\ Range(Append(s, o)) = Range(s) \cup {o}
         /\ \A i \in 1 .. Len(s) : Append(s, o)[i] = s[i]
         /\ Append(s, o)[Len(s) + 1] = o /\ Append(s, o) # <<>>
<1>1. /\ Append(s, o) \in Seq(Full!Objects) /\ Len(Append(s, o)) = Len(s) + 1
      /\ \A i \in 1 .. Len(s) : Append(s, o)[i] = s[i]
      /\ Append(s, o)[Len(s) + 1] = o /\ Append(s, o) # <<>>
  BY AppendProperties
<1>2. Range(Append(s, o)) = {Append(s, o)[i] : i \in 1 .. Len(s) + 1}
  BY <1>1, Elements
<1>3. Range(s) = {s[i] : i \in 1 .. Len(s)} /\ Len(s) \in Nat
  BY Elements
<1>4. \A i \in 1 .. Len(s) + 1 : i \in 1 .. Len(s) \/ i = Len(s) + 1
  BY <1>3
<1>5. 1 .. Len(s) \subseteq 1 .. Len(s) + 1 /\ Len(s) + 1 \in 1 .. Len(s) + 1
  BY <1>3
<1>6. Range(Append(s, o)) \subseteq Range(s) \cup {o}
  BY <1>1, <1>2, <1>3, <1>4
<1>7. Range(s) \cup {o} \subseteq Range(Append(s, o))
  BY <1>1, <1>2, <1>3, <1>5
<1> QED
  BY <1>1, <1>6, <1>7

\* A sequence cut in two.
LEMMA Cutting ==
  ASSUME NEW s \in Seq(Full!Objects), NEW n \in Nat, n <= Len(s)
  PROVE  /\ SubSeq(s, 1, n) \in Seq(Full!Objects) /\ SubSeq(s, n + 1, Len(s)) \in Seq(Full!Objects)
         /\ Len(SubSeq(s, n + 1, Len(s))) = Len(s) - n
         /\ \A i \in 1 .. Len(s) - n : SubSeq(s, n + 1, Len(s))[i] = s[n + i]
         /\ Range(SubSeq(s, 1, n)) = {s[i] : i \in 1 .. n}
         /\ Range(SubSeq(s, n + 1, Len(s))) = {s[i] : i \in n + 1 .. Len(s)}
<1> DEFINE l == SubSeq(s, 1, n)
           r == SubSeq(s, n + 1, Len(s))
<1>1. Len(s) \in Nat /\ \A i \in 1 .. Len(s) : s[i] \in Full!Objects
  BY Elements
<1>2. l \in Seq(Full!Objects) /\ Len(l) = n /\ \A i \in 1 .. n : l[i] = s[i]
  <2>1. \A i \in 1 .. n : s[i] \in Full!Objects
    BY <1>1
  <2>2. l \in Seq(Full!Objects) /\ Len(l) = (IF 1 <= n THEN n - 1 + 1 ELSE 0)
        /\ \A i \in 1 .. n - 1 + 1 : l[i] = s[1 + i - 1]
    BY <2>1, SubSeqProperties
  <2>3. n - 1 + 1 = n /\ \A i \in 1 .. n : 1 + i - 1 = i
    OBVIOUS
  <2> HIDE DEF l
  <2> QED
    BY <2>2, <2>3
<1>3. r \in Seq(Full!Objects) /\ Len(r) = Len(s) - n /\ \A i \in 1 .. Len(s) - n : r[i] = s[n + i]
  <2>1. \A i \in n + 1 .. Len(s) : s[i] \in Full!Objects
    BY <1>1
  <2>2. n + 1 \in Int /\ Len(s) \in Int
    BY <1>1
  <2>3. r \in Seq(Full!Objects)
        /\ Len(r) = (IF n + 1 <= Len(s) THEN Len(s) - (n + 1) + 1 ELSE 0)
        /\ \A i \in 1 .. Len(s) - (n + 1) + 1 : r[i] = s[n + 1 + i - 1]
    BY <2>1, <2>2, SubSeqProperties
  <2> HIDE DEF r
  <2>4. Len(s) - (n + 1) + 1 = Len(s) - n
    BY <1>1
  <2>5. Len(r) = Len(s) - n
    BY <1>1, <2>3
  <2>6. ASSUME NEW i \in 1 .. Len(s) - n
        PROVE  r[i] = s[n + i]
    <3>1. n + 1 + i - 1 = n + i
      BY <1>1
    <3> QED
      BY <2>3, <2>4, <3>1
  <2> QED
    BY <2>3, <2>5, <2>6
<1> HIDE DEF l, r
<1>4. Range(l) = {s[i] : i \in 1 .. n}
  <2>1. Range(l) = {l[i] : i \in 1 .. n}
    BY <1>2, Elements
  <2> QED
    BY <1>2, <2>1
<1>5. Range(r) = {s[i] : i \in n + 1 .. Len(s)}
  <2>1. Range(r) = {r[i] : i \in 1 .. Len(s) - n}
    BY <1>3, Elements
  <2>2. \A i \in 1 .. Len(s) - n : n + i \in n + 1 .. Len(s) /\ r[i] = s[n + i]
    BY <1>1, <1>3
  <2>3. \A k \in n + 1 .. Len(s) : k - n \in 1 .. Len(s) - n /\ s[k] = r[k - n]
    <3> SUFFICES ASSUME NEW k \in n + 1 .. Len(s)
                 PROVE  k - n \in 1 .. Len(s) - n /\ s[k] = r[k - n]
      OBVIOUS
    <3>1. k - n \in 1 .. Len(s) - n /\ n + (k - n) = k
      BY <1>1
    <3> QED
      BY <1>3, <3>1
  <2>4. Range(r) \subseteq {s[i] : i \in n + 1 .. Len(s)}
    BY <2>1, <2>2
  <2>5. {s[i] : i \in n + 1 .. Len(s)} \subseteq Range(r)
    BY <2>1, <2>3
  <2> QED
    BY <2>4, <2>5
<1> QED
  BY <1>2, <1>3, <1>4, <1>5 DEF l, r
-----------------------------------------------------------------------------
(***************************************************************************)
(* Where an object is: not yet listed, waiting to be sent, in a request or *)
(* answered, and in one of these only.                                     *)
(***************************************************************************)
InCall(o) == \E c \in calls : o \in c.objs
Waits(o) == o \in Range(items)
Listed == {o \in Full!Objects : o < next /\ Full!Eligible(o)}
Counted == {o \in Full!Objects : answer[o] = "queued"}
Kept == {o \in Full!Objects : answer[o] = "queued" \/ Waits(o) \/ InCall(o)}
Over == at \in {"report", "done", "unreported"}

CallInv == \A c, d \in calls : \A o \in c.objs : o \in d.objs => c = d

ItemInv == \A i, j \in 1 .. Len(items) : items[i] = items[j] => i = j

ObjectInv ==
    \A o \in Full!Objects :
        /\ InCall(o) => ~Waits(o) /\ answer[o] = "none"
        /\ Waits(o) => answer[o] = "none"
        /\ (InCall(o) \/ Waits(o) \/ answer[o] # "none") <=> o \in Listed
        /\ asked[o] \in {0, 1}
        /\ asked[o] = 1 <=> (answer[o] \in {"queued", "lost"} /\ Kinds[o] # "quarantine")

FlowInv == CallInv /\ ItemInv /\ ObjectInv

\* The handler's own numbers are true.
CountInv == count = Cardinality(Counted) /\ seen = Cardinality(Listed)

\* Where requests may be under way, and how many.
TaskInv ==
    /\ Full!UsesTasks =>
         /\ at \notin {"flush", "await"} /\ Cardinality(calls) <= tasks
         /\ \A c \in calls : \E o \in Full!Objects : c.objs = {o}
         /\ items # <<>> => tasks = 0
    /\ ~Full!UsesTasks => tasks = 0 /\ (calls # {} => at = "await") /\ at # "gather"

\* What waits to be sent, and when.
PendingInv ==
    /\ Full!Collects /\ at \in {"list", "bound"} => tasks = 0 /\ calls = {} /\ Counted = {}
    /\ ~Full!Collects /\ ~batch => items = <<>>
    /\ ~Full!Collects =>
         /\ size > 0 /\ Len(items) <= size
         /\ at \in {"list", "bound"} => Len(items) < size
         /\ at = "await" => items = <<>>

\* When the loop is over.
LoopInv ==
    /\ at = "rest" \/ (Over /\ ~broken) => ~listing
    /\ at = "list" => listing
    /\ broken => Over
    /\ Full!Collects /\ at \in {"flush", "await", "gather"} => ~listing

\* The report comes last.
LastInv ==
    Over /\ ~broken => calls = {} /\ (items = <<>> \/ (limit > 0 /\ count >= limit))

\* Nothing is left out before the limit is reached.
EndInv ==
    ~listing =>
      /\ (platform = "sharepoint" => batch) =>
            next > Len(Kinds) \/ (limit > 0 /\ Cardinality(Listed) >= limit)
      /\ limit = 0 => next > Len(Kinds)

\* What was asked for, waits to be and is being asked for keeps within the limit.
KeptInv ==
    limit > 0 /\ (platform = "azure" => batch) =>
      /\ Cardinality(Kept) <= limit
      /\ at = "list" => Cardinality(Kept) < limit
      /\ platform = "s3" /\ at = "bound" /\ items # <<>> => count + Len(items) < limit

FullInv ==
    /\ FullType /\ FlowInv /\ CountInv /\ TaskInv /\ PendingInv /\ LoopInv /\ LastInv
    /\ EndInv /\ KeptInv

\* There are finitely many requests.
LEMMA FiniteCalls ==
  ASSUME NEW C \in SUBSET CallSet
  PROVE  IsFiniteSet(C)
<1> DEFINE ats == {"waiting", "check", "post"}
           D == (SUBSET Full!Objects) \X ats
           make == [p \in D |-> [objs |-> p[1], at |-> p[2]]]
<1>1. IsFiniteSet(SUBSET Full!Objects)
  BY ObjectFacts, FS_SUBSET
<1>2. IsFiniteSet(ats)
  <2>1. IsFiniteSet({}) /\ \A T, x : IsFiniteSet(T) => IsFiniteSet(T \cup {x})
    BY FS_EmptySet, FS_AddElement
  <2>2. IsFiniteSet((({} \cup {"waiting"}) \cup {"check"}) \cup {"post"})
    BY <2>1
  <2>3. (({} \cup {"waiting"}) \cup {"check"}) \cup {"post"} = ats
    OBVIOUS
  <2> QED
    BY <2>2, <2>3
<1>3. IsFiniteSet(D)
  BY <1>1, <1>2, FS_Product
<1>4. make \in Surjection(D, CallSet)
  <2>1. make \in [D -> CallSet]
    BY DEF CallSet
  <2>2. \A c \in CallSet : <<c.objs, c.at>> \in D /\ make[<<c.objs, c.at>>] = c
    BY DEF CallSet
  <2> HIDE DEF make, D
  <2> QED
    BY <2>1, <2>2 DEF Surjection
<1>5. IsFiniteSet(CallSet)
  BY <1>3, <1>4, FS_Surjection
<1> QED
  BY <1>5, FS_Subset

\* How the numbers of objects compare.
LEMMA Numbers ==
  ASSUME FullType, FlowInv
  PROVE  /\ IsFiniteSet(Counted) /\ IsFiniteSet(Listed) /\ IsFiniteSet(Kept) /\ IsFiniteSet(calls)
         /\ Cardinality(Counted) \in Nat /\ Cardinality(Listed) \in Nat
         /\ Cardinality(Kept) \in Nat /\ Cardinality(calls) \in Nat /\ Len(items) \in Nat
         /\ Cardinality(Counted) + Len(items) <= Cardinality(Kept)
         /\ Cardinality(Kept) <= Cardinality(Listed)
         /\ calls = {} => Cardinality(Kept) = Cardinality(Counted) + Len(items)
<1>1. IsFiniteSet(Counted) /\ IsFiniteSet(Listed) /\ IsFiniteSet(Kept) /\ IsFiniteSet(calls)
  <2>1. Counted \subseteq Full!Objects /\ Listed \subseteq Full!Objects
        /\ Kept \subseteq Full!Objects
    BY DEF Counted, Listed, Kept
  <2>2. calls \in SUBSET CallSet
    BY DEF FullType
  <2> QED
    BY <2>1, <2>2, ObjectFacts, FS_Subset, FiniteCalls
<1>2. /\ Cardinality(Counted) \in Nat /\ Cardinality(Listed) \in Nat
      /\ Cardinality(Kept) \in Nat /\ Cardinality(calls) \in Nat
  BY <1>1, FS_CardinalityType
<1>3. items \in Seq(Full!Objects)
  BY DEF FullType
<1>4. Len(items) \in Nat /\ Range(items) \subseteq Full!Objects /\ IsFiniteSet(Range(items))
  BY <1>3, Elements
<1>5. Cardinality(Range(items)) = Len(items)
  BY <1>3, Elements DEF FlowInv, ItemInv
<1>6. Cardinality(Counted \cup Range(items)) = Cardinality(Counted) + Len(items)
  <2>1. \A o : ~(o \in Counted /\ o \in Range(items))
    BY <1>4 DEF FlowInv, ObjectInv, Counted, Waits
  <2>2. Counted \cap Range(items) = {}
    BY <2>1
  <2>3. Cardinality(Counted \cup Range(items))
          = Cardinality(Counted) + Cardinality(Range(items))
          - Cardinality(Counted \cap Range(items))
    BY <1>1, <1>4, FS_Union
  <2>4. Cardinality(Counted \cap Range(items)) = 0
    BY <2>2, FS_EmptySet
  <2> QED
    BY <1>2, <1>4, <1>5, <2>3, <2>4
<1>7. Counted \cup Range(items) \subseteq Kept
  BY <1>4 DEF Counted, Kept, Waits
<1>8. Kept \subseteq Listed
  BY DEF FlowInv, ObjectInv, Kept, Listed
<1>9. Cardinality(Counted \cup Range(items)) <= Cardinality(Kept)
  BY <1>1, <1>7, FS_Subset
<1>10. Cardinality(Kept) <= Cardinality(Listed)
  BY <1>1, <1>8, FS_Subset
<1>11. calls = {} => Kept = Counted \cup Range(items)
  BY <1>4 DEF Counted, Kept, Waits, InCall
<1> QED
  BY <1>1, <1>2, <1>4, <1>6, <1>9, <1>10, <1>11

\* Tasks have one object each.
LEMMA Singles ==
  ASSUME FullType, FlowInv, \A c \in calls : \E o \in Full!Objects : c.objs = {o}
  PROVE  Cardinality(Kept) <= Cardinality(Counted) + Len(items) + Cardinality(calls)
<1> DEFINE A == {o \in Full!Objects : InCall(o)}
           B == Counted \cup Range(items)
           its == [c \in calls |-> CHOOSE o \in Full!Objects : c.objs = {o}]
<1>1. \A c \in calls : its[c] \in Full!Objects /\ c.objs = {its[c]}
  OBVIOUS
<1>2. its \in Surjection(calls, A)
  <2>1. \A c \in calls : its[c] \in A
    BY <1>1 DEF InCall
  <2>2. \A o \in A : \E c \in calls : its[c] = o
    BY <1>1 DEF InCall
  <2>3. its \in [calls -> A]
    BY <2>1
  <2> HIDE DEF its, A
  <2> QED
    BY <2>2, <2>3 DEF Surjection
<1>3. IsFiniteSet(A) /\ Cardinality(A) <= Cardinality(calls)
  BY <1>2, Numbers, FS_Surjection
<1>4. items \in Seq(Full!Objects)
  BY DEF FullType
<1>5. IsFiniteSet(Range(items)) /\ Range(items) \subseteq Full!Objects
      /\ Cardinality(Range(items)) = Len(items)
  BY <1>4, Elements DEF FlowInv, ItemInv
<1>6. IsFiniteSet(B) /\ Cardinality(B) <= Cardinality(Counted) + Len(items)
  <2>1. /\ IsFiniteSet(B)
        /\ Cardinality(B)
             = Cardinality(Counted) + Cardinality(Range(items))
             - Cardinality(Counted \cap Range(items))
    BY <1>5, Numbers, FS_Union
  <2>2. Cardinality(Counted \cap Range(items)) \in Nat
    <3>1. IsFiniteSet(Counted \cap Range(items))
      BY <1>5, FS_Subset
    <3> QED
      BY <3>1, FS_CardinalityType
  <2> QED
    BY <1>5, <2>1, <2>2, Numbers
<1>7. Kept = A \cup B
  BY <1>5 DEF Kept, Counted, Waits, InCall
<1>8. Cardinality(A \cup B) <= Cardinality(A) + Cardinality(B)
  <2>1. Cardinality(A \cup B) = Cardinality(A) + Cardinality(B) - Cardinality(A \cap B)
    BY <1>3, <1>6, FS_Union
  <2>2. IsFiniteSet(A \cap B)
    BY <1>3, FS_Subset
  <2>3. Cardinality(A \cap B) \in Nat /\ Cardinality(A) \in Nat /\ Cardinality(B) \in Nat
    BY <1>3, <1>6, <2>2, FS_CardinalityType
  <2> HIDE DEF A, B
  <2> QED
    BY <2>1, <2>3
<1>9. Cardinality(A) \in Nat /\ Cardinality(B) \in Nat
  BY <1>3, <1>6, FS_CardinalityType
<1> HIDE DEF A, B
<1> QED
  BY <1>3, <1>6, <1>7, <1>8, <1>9, Numbers
-----------------------------------------------------------------------------
(***************************************************************************)
(* The requests.                                                           *)
(***************************************************************************)
\* The scan that was asked for stays as it is.
LEMMA SetupStays ==
  ASSUME UNCHANGED Full!setup
  PROVE  /\ platform' = platform /\ limit' = limit /\ batch' = batch /\ size' = size
         /\ (Full!UsesTasks' <=> Full!UsesTasks) /\ (Full!Collects' <=> Full!Collects)
         /\ \A o : Full!Eligible(o)' <=> Full!Eligible(o)
  BY DEF Full!setup, Full!UsesTasks, Full!Collects, Full!Eligible

\* A step of a request that keeps to the objects which are in requests.
LEMMA Steady ==
  ASSUME FullInv, UNCHANGED <<Full!setup, Full!control, broken>>, Full!Suspended, calls # {},
         Cardinality(calls') <= Cardinality(calls),
         \A d \in calls' : \E e \in calls : d.objs = e.objs,
         FullType', FlowInv', CountInv', Kept' \subseteq Kept
  PROVE  FullInv'
<1>1. /\ platform' = platform /\ limit' = limit /\ batch' = batch /\ size' = size
      /\ (Full!UsesTasks' <=> Full!UsesTasks) /\ (Full!Collects' <=> Full!Collects)
      /\ \A o : Full!Eligible(o)' <=> Full!Eligible(o)
  BY SetupStays
<1>2. /\ at' = at /\ listing' = listing /\ next' = next /\ seen' = seen /\ items' = items
      /\ tasks' = tasks /\ broken' = broken
  BY DEF Full!control
<1>3. Listed' = Listed /\ (Over' <=> Over)
  BY <1>1, <1>2 DEF Listed, Over
<1>4. TaskInv'
  <2>1. Cardinality(calls) \in Nat /\ IsFiniteSet(calls') /\ Cardinality(calls') \in Nat
    <3>1. calls' \in SUBSET CallSet /\ IsFiniteSet(calls)
      BY Numbers DEF FullInv, FullType
    <3> QED
      BY <3>1, FiniteCalls, FS_CardinalityType
  <2>2. Cardinality(calls) <= tasks => Cardinality(calls') <= tasks
    <3>1. tasks \in Nat
      BY DEF FullInv, FullType
    <3> QED
      BY <2>1, <3>1
  <2>3. (\A e \in calls : \E o \in Full!Objects : e.objs = {o})
          => \A d \in calls' : \E o \in Full!Objects : d.objs = {o}
    OBVIOUS
  <2> QED
    BY <1>1, <1>2, <2>2, <2>3 DEF FullInv, TaskInv
<1>5. PendingInv'
  BY <1>1, <1>2 DEF FullInv, PendingInv
<1>6. LoopInv' /\ LastInv' /\ EndInv'
  BY <1>1, <1>2, <1>3 DEF FullInv, LoopInv, LastInv, EndInv
<1>7. KeptInv'
  <2>1. IsFiniteSet(Kept) /\ Cardinality(Kept) \in Nat
    BY Numbers DEF FullInv
  <2>2. IsFiniteSet(Kept') /\ Cardinality(Kept') <= Cardinality(Kept)
    BY <2>1, FS_Subset
  <2>3. Cardinality(Kept') \in Nat
    BY <2>2, FS_CardinalityType
  <2> QED
    BY <1>1, <1>2, <2>1, <2>2, <2>3 DEF FullInv, KeptInv, FullType, Full!Suspended
<1> QED
  BY <1>4, <1>5, <1>6, <1>7 DEF FullInv

\* A request comes to its next step.
LEMMA Advancing ==
  ASSUME FullInv, UNCHANGED <<Full!setup, Full!control, broken>>, Full!Suspended, NEW c \in calls,
         NEW step \in {"check", "post"}, Full!Step(c, step), UNCHANGED <<count, asked, answer>>,
         troubles' \in Nat
  PROVE  FullInv'
<1> DEFINE d == [c EXCEPT !.at = step]
<1>1. c \in CallSet /\ calls \in SUBSET CallSet /\ IsFiniteSet(calls)
  BY FiniteCalls DEF FullInv, FullType
<1>2. d \in CallSet /\ d.objs = c.objs
  BY <1>1 DEF CallSet
<1>3. calls' = (calls \ {c}) \cup {d}
  BY DEF Full!Step
<1> HIDE DEF d
<1>4. Cardinality(calls') <= Cardinality(calls)
  <2>1. /\ IsFiniteSet(calls \ {c}) /\ Cardinality(calls \ {c}) = Cardinality(calls) - 1
    BY <1>1, FS_RemoveElement
  <2>2. Cardinality((calls \ {c}) \cup {d})
          = IF d \in calls \ {c} THEN Cardinality(calls \ {c}) ELSE Cardinality(calls \ {c}) + 1
    BY <2>1, FS_AddElement
  <2>3. Cardinality(calls) \in Nat
    BY <1>1, FS_CardinalityType
  <2> QED
    BY <1>3, <2>1, <2>2, <2>3
<1>5. \A e \in calls' : (e.objs = c.objs /\ e = d) \/ (e \in calls /\ e # c)
  BY <1>2, <1>3
<1>6. \A o : InCall(o)' <=> InCall(o)
  BY <1>2, <1>3 DEF InCall
<1>7. /\ at' = at /\ listing' = listing /\ next' = next /\ seen' = seen /\ items' = items
      /\ tasks' = tasks /\ broken' = broken /\ count' = count /\ asked' = asked
      /\ answer' = answer
  BY DEF Full!control
<1>8. /\ platform' = platform /\ limit' = limit /\ batch' = batch /\ size' = size
      /\ \A o : Full!Eligible(o)' <=> Full!Eligible(o)
  BY SetupStays
<1>9. (\A o : Waits(o)' <=> Waits(o)) /\ Listed' = Listed /\ Counted' = Counted /\ Kept' = Kept
  BY <1>6, <1>7, <1>8 DEF Waits, Listed, Counted, Kept
<1>10. FullType'
  BY <1>1, <1>2, <1>3, <1>7, <1>8 DEF FullInv, FullType
<1>11. CallInv'
  BY <1>2, <1>5 DEF FullInv, FlowInv, CallInv
<1>12. ItemInv'
  BY <1>7 DEF FullInv, FlowInv, ItemInv
<1>13. ObjectInv'
  BY <1>6, <1>7, <1>9 DEF FullInv, FlowInv, ObjectInv
<1>14. CountInv'
  BY <1>7, <1>9 DEF FullInv, CountInv
<1> QED
  BY <1>4, <1>5, <1>9, <1>10, <1>11, <1>12, <1>13, <1>14, Steady DEF FlowInv

\* A request is answered, after dsx-connect has queued it or without.
LEMMA Answering ==
  ASSUME FullInv, UNCHANGED <<Full!setup, Full!control, broken>>, Full!Suspended, NEW c \in calls,
         NEW how \in Outcomes \ {"none"}, Full!Answer(c, how), troubles' \in Nat,
         IF how \in {"queued", "lost"} THEN Full!Queue(c) ELSE asked' = asked
  PROVE  FullInv'
<1>1. c \in CallSet /\ calls \in SUBSET CallSet /\ IsFiniteSet(calls)
      /\ c.objs \subseteq Full!Objects
  BY FiniteCalls DEF FullInv, FullType, CallSet
<1>2. calls' = calls \ {c}
      /\ answer' = [o \in Full!Objects |-> IF o \in c.objs THEN how ELSE answer[o]]
      /\ count' = IF how = "queued" THEN count + Cardinality(c.objs) ELSE count
  BY FullNames DEF Full!Answer
<1>3. Cardinality(calls') <= Cardinality(calls)
  BY <1>1, <1>2, FS_Subset
<1>4. /\ at' = at /\ listing' = listing /\ next' = next /\ seen' = seen /\ items' = items
      /\ tasks' = tasks /\ broken' = broken
  BY DEF Full!control
<1>5. /\ platform' = platform /\ limit' = limit /\ batch' = batch /\ size' = size
      /\ \A o : Full!Eligible(o)' <=> Full!Eligible(o)
  BY SetupStays
<1>6. (\A o : Waits(o)' <=> Waits(o)) /\ Listed' = Listed
  BY <1>4, <1>5 DEF Waits, Listed
<1>7. \A o : InCall(o)' <=> InCall(o) /\ o \notin c.objs
  <2>1. \A o \in c.objs : \A e \in calls : o \in e.objs => e = c
    BY DEF FullInv, FlowInv, CallInv
  <2> QED
    BY <1>2, <2>1 DEF InCall
<1>8. \A o \in c.objs : answer[o] = "none" /\ ~Waits(o) /\ InCall(o) /\ asked[o] = 0
  BY <1>1 DEF FullInv, FlowInv, ObjectInv, InCall
<1>9. \A o \in Full!Objects : answer'[o] = IF o \in c.objs THEN how ELSE answer[o]
  BY <1>2
<1>10. \A o \in Full!Objects :
         asked'[o] = IF o \in c.objs /\ Kinds[o] # "quarantine" /\ how \in {"queued", "lost"}
                     THEN asked[o] + 1 ELSE asked[o]
  BY DEF Full!Queue, Full!Sent, FullInv, FullType
<1>11. Kept' \subseteq Kept
  BY <1>6, <1>7, <1>8, <1>9 DEF Kept
<1>12. Counted' = IF how = "queued" THEN Counted \cup c.objs ELSE Counted
  BY <1>1, <1>8, <1>9 DEF Counted
<1>13. IsFiniteSet(c.objs) /\ Cardinality(c.objs) \in Nat
  BY <1>1, ObjectFacts, FS_Subset, FS_CardinalityType
<1>14. CountInv'
  <2>1. Counted \cap c.objs = {}
    BY <1>8 DEF Counted
  <2>2. IsFiniteSet(Counted) /\ Cardinality(Counted) \in Nat
    BY Numbers DEF FullInv
  <2>3. Cardinality(Counted \cup c.objs)
          = Cardinality(Counted) + Cardinality(c.objs) - Cardinality(Counted \cap c.objs)
    BY <1>13, <2>2, FS_Union
  <2>4. Cardinality(Counted \cap c.objs) = 0
    BY <2>1, FS_EmptySet
  <2>5. Cardinality(Counted \cup c.objs) = Cardinality(Counted) + Cardinality(c.objs)
    BY <1>13, <2>2, <2>3, <2>4
  <2>6. count' = Cardinality(Counted')
    BY <1>2, <1>12, <2>5 DEF FullInv, CountInv
  <2> QED
    BY <1>4, <1>6, <2>6 DEF FullInv, CountInv
<1>15. FullType'
  <2>1. asked' \in [Full!Objects -> Nat]
    <3>1. asked \in [Full!Objects -> Nat]
      BY DEF FullInv, FullType
    <3>2. asked' = asked
            \/ asked' = [o \in Full!Objects |->
                           IF o \in Full!Sent(c) THEN asked[o] + 1 ELSE asked[o]]
      BY DEF Full!Queue
    <3> QED
      BY <3>1, <3>2
  <2>2. answer' \in [Full!Objects -> Outcomes]
    BY <1>2 DEF FullInv, FullType
  <2>3. count' \in Nat
    BY <1>2, <1>13 DEF FullInv, FullType
  <2>4. calls' \subseteq CallSet
    BY <1>1, <1>2
  <2> QED
    BY <1>4, <1>5, <2>1, <2>2, <2>3, <2>4 DEF FullInv, FullType
<1>16. CallInv'
  BY <1>2 DEF FullInv, FlowInv, CallInv
<1>17. ItemInv'
  BY <1>4 DEF FullInv, FlowInv, ItemInv
<1>18. ObjectInv'
  <2> SUFFICES ASSUME NEW o \in Full!Objects
               PROVE  /\ InCall(o)' => ~Waits(o)' /\ answer'[o] = "none"
                      /\ Waits(o)' => answer'[o] = "none"
                      /\ (InCall(o)' \/ Waits(o)' \/ answer'[o] # "none") <=> o \in Listed'
                      /\ asked'[o] \in {0, 1}
                      /\ asked'[o] = 1
                           <=> (answer'[o] \in {"queued", "lost"} /\ Kinds[o] # "quarantine")
    BY DEF ObjectInv
  <2>1. /\ InCall(o) => ~Waits(o) /\ answer[o] = "none"
        /\ Waits(o) => answer[o] = "none"
        /\ (InCall(o) \/ Waits(o) \/ answer[o] # "none") <=> o \in Listed
        /\ asked[o] \in {0, 1}
        /\ asked[o] = 1 <=> (answer[o] \in {"queued", "lost"} /\ Kinds[o] # "quarantine")
    BY DEF FullInv, FlowInv, ObjectInv
  <2>2. (InCall(o)' <=> InCall(o) /\ o \notin c.objs) /\ (Waits(o)' <=> Waits(o))
    BY <1>6, <1>7
  <2>3. CASE o \in c.objs
    <3>1. answer'[o] = how /\ how # "none" /\ asked[o] = 0
          /\ asked'[o] = IF Kinds[o] # "quarantine" /\ how \in {"queued", "lost"} THEN 1 ELSE 0
      BY <1>8, <1>9, <1>10, <2>3
    <3>2. InCall(o) /\ ~Waits(o)
      BY <1>8, <2>3
    <3> QED
      BY <1>6, <2>1, <2>2, <2>3, <3>1, <3>2
  <2>4. CASE o \notin c.objs
    <3>1. answer'[o] = answer[o] /\ asked'[o] = asked[o]
      BY <1>9, <1>10, <2>4
    <3> QED
      BY <1>6, <2>1, <2>2, <2>4, <3>1
  <2> QED
    BY <2>3, <2>4
<1> QED
  BY <1>2, <1>3, <1>11, <1>14, <1>15, <1>16, <1>17, <1>18, Steady DEF FlowInv

LEMMA RequestSteps ==
  ASSUME FullInv, NEW c \in calls, Full!Request(c) \/ Full!Fails(c)
  PROVE  FullInv'
<1> USE DEF Outcomes
<1>0. Full!Suspended /\ troubles \in Nat
  BY DEF Full!Request, Full!Fails, FullInv, FullType
<1>1. CASE Full!Prepare(c)
  <2>1. UNCHANGED <<Full!setup, Full!control, broken>> /\ troubles' \in Nat
    BY <1>0, <1>1 DEF Full!Prepare, Full!environment
  <2>2. CASE ~ready \/ Full!Sent(c) = {}
    BY <1>0, <1>1, <2>1, <2>2, Answering DEF Full!Prepare
  <2>3. CASE ~(~ready \/ Full!Sent(c) = {})
    BY <1>0, <1>1, <2>1, <2>3, Advancing DEF Full!Prepare
  <2> QED
    BY <2>2, <2>3
<1>2. CASE Full!Check(c)
  <2>1. UNCHANGED <<Full!setup, Full!control, broken>> /\ troubles' \in Nat /\ asked' = asked
    BY <1>0, <1>2 DEF Full!Check, Full!environment
  <2>2. CASE hold /\ Full!InJob(c)
    BY <1>0, <1>2, <2>1, <2>2, Answering DEF Full!Check
  <2>3. CASE ~(hold /\ Full!InJob(c))
    BY <1>0, <1>2, <2>1, <2>3, Advancing DEF Full!Check
  <2> QED
    BY <2>2, <2>3
<1>3. CASE Full!Post(c)
  <2>1. UNCHANGED <<Full!setup, Full!control, broken>> /\ troubles' \in Nat
    BY <1>0, <1>3 DEF Full!Post, Full!environment
  <2> QED
    BY <1>0, <1>3, <2>1, Answering DEF Full!Post
<1>4. CASE Full!CheckFails(c)
  <2>1. UNCHANGED <<Full!setup, Full!control, broken>> /\ troubles' \in Nat
    BY <1>0, <1>4 DEF Full!CheckFails
  <2> QED
    BY <1>0, <1>4, <2>1, Advancing DEF Full!CheckFails
<1>5. CASE Full!PostFails(c)
  <2>1. UNCHANGED <<Full!setup, Full!control, broken>> /\ troubles' \in Nat
    BY <1>0, <1>5 DEF Full!PostFails
  <2> QED
    BY <1>0, <1>5, <2>1, Answering DEF Full!PostFails
<1> QED
  BY <1>1, <1>2, <1>3, <1>4, <1>5 DEF Full!Request, Full!Fails
-----------------------------------------------------------------------------
(***************************************************************************)
(* The handler.                                                            *)
(***************************************************************************)
Static == <<Full!setup, next, seen, items, Full!requests>>

\* The handler goes from one place to another and sends nothing.
LEMMA Turning ==
  ASSUME FullInv, UNCHANGED Static, at' \in Stages, listing' \in BOOLEAN, tasks' \in Nat,
         broken' \in BOOLEAN, troubles' \in Nat
  PROVE  /\ FullType' /\ FlowInv' /\ CountInv'
         /\ Kept' = Kept /\ Listed' = Listed /\ Counted' = Counted
         /\ next' = next /\ items' = items /\ calls' = calls /\ count' = count
         /\ platform' = platform /\ limit' = limit /\ batch' = batch /\ size' = size
         /\ (Full!UsesTasks' <=> Full!UsesTasks) /\ (Full!Collects' <=> Full!Collects)
<1>1. /\ platform' = platform /\ limit' = limit /\ batch' = batch /\ size' = size
      /\ (Full!UsesTasks' <=> Full!UsesTasks) /\ (Full!Collects' <=> Full!Collects)
      /\ \A o : Full!Eligible(o)' <=> Full!Eligible(o)
  BY SetupStays DEF Static
<1>2. /\ next' = next /\ seen' = seen /\ items' = items /\ calls' = calls /\ count' = count
      /\ asked' = asked /\ answer' = answer
  BY DEF Static, Full!requests
<1>3. (\A o : Waits(o)' <=> Waits(o)) /\ (\A o : InCall(o)' <=> InCall(o))
      /\ Listed' = Listed /\ Counted' = Counted
  BY <1>1, <1>2 DEF Waits, InCall, Listed, Counted
<1>4. Kept' = Kept
  BY <1>2, <1>3 DEF Kept
<1>5. FullType'
  BY <1>1, <1>2 DEF FullInv, FullType
<1>6. CallInv' /\ ItemInv'
  BY <1>2 DEF FullInv, FlowInv, CallInv, ItemInv
<1>7. ObjectInv'
  BY <1>2, <1>3 DEF FullInv, FlowInv, ObjectInv
<1>8. CountInv'
  BY <1>2, <1>3 DEF FullInv, CountInv
<1> QED
  BY <1>1, <1>2, <1>3, <1>4, <1>5, <1>6, <1>7, <1>8 DEF FlowInv

\* What the listing yields next has not been seen.
LEMMA NextObject ==
  ASSUME FullInv, next <= Len(Kinds)
  PROVE  /\ next \in Full!Objects /\ next \notin Listed /\ ~InCall(next) /\ ~Waits(next)
         /\ answer[next] = "none" /\ next \notin Kept
<1>1. next \in Full!Objects
  BY ObjectFacts DEF FullInv, FullType
<1>2. next \notin Listed
  BY DEF Listed, FullInv, FullType
<1> QED
  BY <1>1, <1>2 DEF FullInv, FlowInv, ObjectInv, Kept

LEMMA SkipStep ==
  ASSUME FullInv, Full!Skip
  PROVE  FullInv'
<1>1. /\ at = "list" /\ next <= Len(Kinds) /\ ~Full!Eligible(next) /\ next' = next + 1
      /\ at' = at /\ listing' = listing /\ seen' = seen /\ items' = items /\ tasks' = tasks
      /\ calls' = calls /\ count' = count /\ asked' = asked /\ answer' = answer
      /\ troubles' = troubles /\ broken' = broken /\ UNCHANGED Full!setup
  BY DEF Full!Skip, Full!requests, Full!environment
<1>2. /\ platform' = platform /\ limit' = limit /\ batch' = batch /\ size' = size
      /\ (Full!UsesTasks' <=> Full!UsesTasks) /\ (Full!Collects' <=> Full!Collects)
      /\ \A o : Full!Eligible(o)' <=> Full!Eligible(o)
  BY <1>1, SetupStays
<1>3. Listed' = Listed
  <2>1. \A o \in Full!Objects : o < next + 1 <=> o < next \/ o = next
    BY ObjectFacts DEF FullInv, FullType
  <2> QED
    BY <1>1, <1>2, <2>1 DEF Listed
<1>4. (\A o : Waits(o)' <=> Waits(o)) /\ (\A o : InCall(o)' <=> InCall(o)) /\ Counted' = Counted
  BY <1>1 DEF Waits, InCall, Counted
<1>5. Kept' = Kept /\ (Over' <=> Over)
  BY <1>1, <1>4 DEF Kept, Over
<1>6. FullType'
  BY <1>1, <1>2, ObjectFacts DEF FullInv, FullType
<1>7. CallInv' /\ ItemInv'
  BY <1>1 DEF FullInv, FlowInv, CallInv, ItemInv
<1>8. ObjectInv'
  BY <1>1, <1>3, <1>4 DEF FullInv, FlowInv, ObjectInv
<1>9. CountInv'
  BY <1>1, <1>3, <1>4 DEF FullInv, CountInv
<1>10. TaskInv' /\ PendingInv'
  BY <1>1, <1>2, <1>4 DEF FullInv, TaskInv, PendingInv
<1>11. LoopInv' /\ LastInv' /\ EndInv' /\ KeptInv'
  BY <1>1, <1>2, <1>5 DEF FullInv, LoopInv, LastInv, EndInv, KeptInv, Over
<1> QED
  BY <1>6, <1>7, <1>8, <1>9, <1>10, <1>11 DEF FullInv, FlowInv

\* One more object is listed.
LEMMA Listing ==
  ASSUME FullInv, next <= Len(Kinds), Full!Eligible(next), next' = next + 1, seen' = seen + 1,
         UNCHANGED Full!setup
  PROVE  /\ Listed' = Listed \cup {next} /\ seen' = Cardinality(Listed')
<1>1. \A o : Full!Eligible(o)' <=> Full!Eligible(o)
  BY SetupStays
<1>2. next \in Full!Objects /\ next \notin Listed
  BY NextObject
<1>3. Listed' = Listed \cup {next}
  <2>1. \A o \in Full!Objects : o < next + 1 <=> o < next \/ o = next
    BY ObjectFacts DEF FullInv, FullType
  <2> QED
    BY <1>1, <1>2, <2>1 DEF Listed
<1>4. IsFiniteSet(Listed)
  BY Numbers DEF FullInv
<1>5. Cardinality(Listed \cup {next}) = Cardinality(Listed) + 1
  BY <1>2, <1>4, FS_AddElement
<1> QED
  BY <1>3, <1>5 DEF FullInv, CountInv

LEMMA CollectStep ==
  ASSUME FullInv, Full!Collect
  PROVE  FullInv'
<1>1. /\ at = "list" /\ next <= Len(Kinds) /\ Full!Eligible(next) /\ next' = next + 1
      /\ Full!Collects \/ batch
      /\ listing' = listing /\ seen' = seen + 1 /\ items' = Append(items, next) /\ tasks' = tasks
      /\ calls' = calls /\ count' = count /\ asked' = asked /\ answer' = answer
      /\ troubles' = troubles /\ broken' = broken /\ UNCHANGED Full!setup
      /\ at' = IF ~Full!Collects /\ Full!FlushDue(items') THEN "flush" ELSE "bound"
  BY DEF Full!Collect, Full!requests, Full!environment
<1>2. /\ platform' = platform /\ limit' = limit /\ batch' = batch /\ size' = size
      /\ (Full!UsesTasks' <=> Full!UsesTasks) /\ (Full!Collects' <=> Full!Collects)
      /\ \A o : Full!Eligible(o)' <=> Full!Eligible(o)
  BY <1>1, SetupStays
<1>3. /\ next \in Full!Objects /\ next \notin Listed /\ ~InCall(next) /\ ~Waits(next)
      /\ answer[next] = "none" /\ next \notin Kept
  BY <1>1, NextObject
<1>4. Listed' = Listed \cup {next} /\ seen' = Cardinality(Listed')
  BY <1>1, Listing
<1>5. items \in Seq(Full!Objects) /\ Len(items) \in Nat
  BY Elements DEF FullInv, FullType
<1>6. /\ items' \in Seq(Full!Objects) /\ Len(items') = Len(items) + 1
      /\ Range(items') = Range(items) \cup {next}
      /\ \A i \in 1 .. Len(items) : items'[i] = items[i]
      /\ items'[Len(items) + 1] = next /\ items' # <<>>
  BY <1>1, <1>3, <1>5, Joining
<1>7. (\A o : Waits(o)' <=> Waits(o) \/ o = next) /\ (\A o : InCall(o)' <=> InCall(o))
      /\ Counted' = Counted
  BY <1>1, <1>6 DEF Waits, InCall, Counted
<1>8. Kept' = Kept \cup {next}
  BY <1>1, <1>3, <1>7 DEF Kept
<1>9. at' \in {"flush", "bound"} /\ ~Over'
  BY <1>1 DEF Over
<1>10. FullType'
  BY <1>1, <1>2, <1>5, <1>6, <1>9, ObjectFacts DEF FullInv, FullType, Stages
<1>11. CallInv'
  BY <1>1 DEF FullInv, FlowInv, CallInv
<1>12. ItemInv'
  <2>1. \A i \in 1 .. Len(items) : items[i] # next
    BY <1>3, <1>5, Elements DEF Waits
  <2>2. \A i \in 1 .. Len(items') : i \in 1 .. Len(items) \/ i = Len(items) + 1
    BY <1>5, <1>6
  <2> QED
    BY <1>6, <2>1, <2>2 DEF FullInv, FlowInv, ItemInv
<1>13. ObjectInv'
  BY <1>1, <1>3, <1>4, <1>7 DEF FullInv, FlowInv, ObjectInv
<1>14. CountInv'
  BY <1>1, <1>4, <1>7 DEF FullInv, CountInv
<1>15. calls = {} \/ Full!UsesTasks
  BY <1>1 DEF FullInv, TaskInv
<1>16. Full!UsesTasks => Full!Collects
  BY <1>1 DEF Full!UsesTasks
<1>17. TaskInv'
  BY <1>1, <1>2, <1>9, <1>15, <1>16 DEF FullInv, TaskInv, PendingInv
<1>18. PendingInv'
  <2>1. Full!Collects => tasks' = 0 /\ calls' = {} /\ Counted' = {}
    BY <1>1, <1>7 DEF FullInv, PendingInv
  <2>2. ASSUME ~Full!Collects
        PROVE  size > 0 /\ Len(items') <= size /\ (at' = "bound" => Len(items') < size)
    <3>1. size > 0 /\ Len(items) < size /\ size \in Nat
      BY <1>1, <2>2 DEF FullInv, PendingInv, FullType
    <3>2. at' = "bound" => ~(Len(items') >= size)
      BY <1>1, <2>2 DEF Full!FlushDue
    <3> QED
      BY <1>5, <1>6, <3>1, <3>2
  <2> QED
    BY <1>1, <1>2, <1>9, <2>1, <2>2 DEF PendingInv
<1>19. LoopInv' /\ LastInv' /\ EndInv'
  BY <1>1, <1>2, <1>9 DEF FullInv, LoopInv, LastInv, EndInv, Over
<1>20. KeptInv'
  <2>1. IsFiniteSet(Kept) /\ Cardinality(Kept) \in Nat
    BY Numbers DEF FullInv
  <2>2. Cardinality(Kept') = Cardinality(Kept) + 1
    BY <1>3, <1>8, <2>1, FS_AddElement
  <2>3. ASSUME platform = "s3", at' = "bound", limit > 0
        PROVE  count + Len(items') < limit
    <3>1. ~Full!FlushDue(items')
      BY <1>1, <2>3 DEF Full!Collects
    <3> QED
      BY <1>5, <1>6, <2>3, <3>1 DEF Full!FlushDue, FullInv, FullType
  <2>4. limit \in Nat
    BY DEF FullInv, FullType
  <2> QED
    BY <1>1, <1>2, <1>9, <2>1, <2>2, <2>3, <2>4 DEF FullInv, KeptInv
<1> QED
  BY <1>10, <1>11, <1>12, <1>13, <1>14, <1>17, <1>18, <1>19, <1>20 DEF FullInv, FlowInv

LEMMA EnqueueStep ==
  ASSUME FullInv, Full!Enqueue
  PROVE  FullInv'
<1>1. /\ at = "list" /\ next <= Len(Kinds) /\ Full!Eligible(next) /\ next' = next + 1
      /\ ~Full!Collects /\ ~batch
      /\ listing' = listing /\ seen' = seen + 1 /\ items' = items
      /\ calls' = calls \cup {Full!Call({next})}
      /\ count' = count /\ asked' = asked /\ answer' = answer
      /\ troubles' = troubles /\ broken' = broken /\ UNCHANGED Full!setup
      /\ IF Full!UsesTasks
         THEN tasks' = tasks + 1 /\ at' \in {"gather", "bound"}
         ELSE tasks' = tasks /\ at' = "await"
  BY DEF Full!Enqueue, Full!environment
<1>2. /\ platform' = platform /\ limit' = limit /\ batch' = batch /\ size' = size
      /\ (Full!UsesTasks' <=> Full!UsesTasks) /\ (Full!Collects' <=> Full!Collects)
      /\ \A o : Full!Eligible(o)' <=> Full!Eligible(o)
  BY <1>1, SetupStays
<1>3. /\ next \in Full!Objects /\ next \notin Listed /\ ~InCall(next) /\ ~Waits(next)
      /\ answer[next] = "none" /\ next \notin Kept
  BY <1>1, NextObject
<1>4. Listed' = Listed \cup {next} /\ seen' = Cardinality(Listed')
  BY <1>1, Listing
<1>5. items = <<>> /\ size > 0 /\ Len(items) <= size /\ Len(items) < size
  BY <1>1 DEF FullInv, PendingInv
<1>6. Full!Call({next}) \in CallSet /\ Full!Call({next}).objs = {next}
  BY <1>3 DEF Full!Call, CallSet
<1>7. (\A o : Waits(o)' <=> Waits(o)) /\ (\A o : InCall(o)' <=> InCall(o) \/ o = next)
      /\ Counted' = Counted
  BY <1>1, <1>6 DEF Waits, InCall, Counted
<1>8. Kept' = Kept \cup {next}
  BY <1>1, <1>3, <1>7 DEF Kept
<1>9. at' \in {"gather", "bound", "await"} /\ ~Over' /\ at' # "list"
  BY <1>1 DEF Over
<1>10. FullType'
  BY <1>1, <1>2, <1>6, <1>9, ObjectFacts DEF FullInv, FullType, Stages
<1>11. CallInv'
  <2>1. \A c \in calls : next \notin c.objs
    BY <1>3 DEF InCall
  <2>2. \A c \in calls' : c \in calls \/ (c = Full!Call({next}) /\ c.objs = {next})
    BY <1>1, <1>6
  <2> QED
    BY <2>1, <2>2 DEF FullInv, FlowInv, CallInv
<1>12. ItemInv'
  BY <1>1 DEF FullInv, FlowInv, ItemInv
<1>13. ObjectInv'
  BY <1>1, <1>3, <1>4, <1>7 DEF FullInv, FlowInv, ObjectInv
<1>14. CountInv'
  BY <1>1, <1>4, <1>7 DEF FullInv, CountInv
<1>15. TaskInv'
  <2>1. ASSUME Full!UsesTasks
        PROVE  /\ at' \notin {"flush", "await"} /\ Cardinality(calls') <= tasks'
               /\ \A c \in calls' : \E o \in Full!Objects : c.objs = {o}
    <3>1. Cardinality(calls) <= tasks /\ \A c \in calls : \E o \in Full!Objects : c.objs = {o}
      BY <2>1 DEF FullInv, TaskInv
    <3>2. IsFiniteSet(calls) /\ Cardinality(calls) \in Nat
      BY Numbers DEF FullInv
    <3>3. Cardinality(calls') = IF Full!Call({next}) \in calls THEN Cardinality(calls)
                                                         ELSE Cardinality(calls) + 1
      BY <1>1, <3>2, FS_AddElement
    <3>4. tasks' = tasks + 1 /\ tasks \in Nat /\ at' \in {"gather", "bound"}
      BY <1>1, <2>1 DEF FullInv, FullType
    <3>5. Cardinality(calls') <= tasks'
      BY <3>1, <3>2, <3>3, <3>4
    <3>6. \A c \in calls' : \E o \in Full!Objects : c.objs = {o}
      BY <1>1, <1>3, <1>6, <3>1
    <3> QED
      BY <3>4, <3>5, <3>6
  <2>2. ASSUME ~Full!UsesTasks
        PROVE  tasks' = 0 /\ at' = "await"
    BY <1>1, <2>2 DEF FullInv, TaskInv
  <2> QED
    BY <1>1, <1>2, <1>5, <2>1, <2>2 DEF TaskInv
<1>16. PendingInv'
  BY <1>1, <1>2, <1>5, <1>9 DEF PendingInv
<1>17. LoopInv' /\ LastInv' /\ EndInv'
  BY <1>1, <1>2, <1>9 DEF FullInv, LoopInv, LastInv, EndInv, Over
<1>18. KeptInv'
  <2>1. IsFiniteSet(Kept) /\ Cardinality(Kept) \in Nat
    BY Numbers DEF FullInv
  <2>2. Cardinality(Kept') = Cardinality(Kept) + 1
    BY <1>3, <1>8, <2>1, FS_AddElement
  <2>3. limit \in Nat
    BY DEF FullInv, FullType
  <2> QED
    BY <1>1, <1>2, <1>5, <1>9, <2>1, <2>2, <2>3 DEF FullInv, KeptInv
<1> QED
  BY <1>10, <1>11, <1>12, <1>13, <1>14, <1>15, <1>16, <1>17, <1>18 DEF FullInv, FlowInv

\* What the handler compares with the limit is at most what it has listed, and, when it says
\* that the limit is not reached, more may be kept.
LEMMA ReachedFacts ==
  ASSUME FullInv, at = "bound", limit > 0
  PROVE  /\ (platform = "sharepoint" => batch) /\ Full!Reached >= limit
              => Cardinality(Listed) >= limit
         /\ (platform = "azure" => batch) /\ ~(Full!Reached >= limit) => Cardinality(Kept) < limit
<1>1. /\ Cardinality(Counted) \in Nat /\ Cardinality(Listed) \in Nat
      /\ Cardinality(Kept) \in Nat /\ Cardinality(calls) \in Nat /\ Len(items) \in Nat
      /\ Cardinality(Counted) + Len(items) <= Cardinality(Kept)
      /\ Cardinality(Kept) <= Cardinality(Listed)
      /\ calls = {} => Cardinality(Kept) = Cardinality(Counted) + Len(items)
      /\ count = Cardinality(Counted) /\ seen = Cardinality(Listed)
      /\ tasks \in Nat /\ limit \in Nat
  BY Numbers DEF FullInv, CountInv, FullType
<1>2. ~Full!UsesTasks => calls = {} /\ tasks = 0
  BY DEF FullInv, TaskInv
<1>3. CASE platform = "s3"
  <2>1. ~Full!UsesTasks /\ Full!Reached = count
    BY <1>3 DEF Full!UsesTasks, Full!Reached, Full!Collects
  <2>2. (platform = "azure" => batch) /\ items # <<>> => count + Len(items) < limit
    BY <1>3 DEF FullInv, KeptInv
  <2>3. items = <<>> => Len(items) = 0
    OBVIOUS
  <2> QED
    BY <1>1, <1>2, <1>3, <2>1, <2>2, <2>3
<1>4. CASE platform = "azure"
  <2>1. Full!Reached = count + Len(items) /\ (batch => ~Full!UsesTasks)
    BY <1>4 DEF Full!UsesTasks, Full!Reached, Full!Collects
  <2> QED
    BY <1>1, <1>2, <1>4, <2>1
<1>5. CASE platform = "sharepoint"
  <2>1. Full!Reached = count + Len(items) + tasks /\ (batch <=> ~Full!UsesTasks)
    BY <1>5 DEF Full!UsesTasks, Full!Reached, Full!Collects
  <2>2. CASE batch
    BY <1>1, <1>2, <1>5, <2>1, <2>2
  <2>3. CASE ~batch
    <3>1. Cardinality(calls) <= tasks /\ \A c \in calls : \E o \in Full!Objects : c.objs = {o}
      BY <2>1, <2>3 DEF FullInv, TaskInv
    <3>2. Cardinality(Kept) <= Cardinality(Counted) + Len(items) + Cardinality(calls)
      BY <3>1, Singles DEF FullInv
    <3> QED
      BY <1>1, <1>5, <2>1, <2>3, <3>1, <3>2
  <2> QED
    BY <2>2, <2>3
<1>6. CASE platform = "filesystem"
  <2>1. Full!Reached = seen
    BY <1>6 DEF Full!Reached, Full!Collects
  <2> QED
    BY <1>1, <1>6, <2>1
<1>7. CASE Full!Collects
  <2>1. Full!Reached = Len(items)
    BY <1>7 DEF Full!Reached, Full!Collects
  <2>2. calls = {} /\ Counted = {}
    BY <1>7 DEF FullInv, PendingInv
  <2>3. Cardinality(Counted) = 0
    BY <2>2, FS_EmptySet
  <2> QED
    BY <1>1, <2>1, <2>2, <2>3
<1> QED
  BY <1>3, <1>4, <1>5, <1>6, <1>7 DEF FullInv, FullType, Full!Platforms, Full!Collects

LEMMA BoundStep ==
  ASSUME FullInv, Full!Bound
  PROVE  FullInv'
<1>1. /\ at = "bound" /\ listing' = ~(limit > 0 /\ Full!Reached >= limit)
      /\ at' = IF listing' THEN "list" ELSE "rest"
      /\ UNCHANGED Static /\ tasks' = tasks /\ troubles' = troubles /\ broken' = broken
  BY DEF Full!Bound, Static, Full!environment
<1>2. listing' \in BOOLEAN /\ at' \in {"list", "rest"} /\ (at' = "list" <=> listing')
  BY <1>1
<1>3. /\ FullType' /\ FlowInv' /\ CountInv'
      /\ Kept' = Kept /\ Listed' = Listed /\ Counted' = Counted
      /\ next' = next /\ items' = items /\ calls' = calls /\ count' = count
      /\ platform' = platform /\ limit' = limit /\ batch' = batch /\ size' = size
      /\ (Full!UsesTasks' <=> Full!UsesTasks) /\ (Full!Collects' <=> Full!Collects)
  <2>1. tasks' \in Nat /\ troubles' \in Nat /\ broken' \in BOOLEAN
    BY <1>1 DEF FullInv, FullType
  <2>2. at' \in Stages
    BY <1>2 DEF Stages
  <2> QED
    BY <1>1, <1>2, <2>1, <2>2, Turning
<1>4. TaskInv'
  BY <1>1, <1>2, <1>3 DEF FullInv, TaskInv
<1>5. PendingInv'
  BY <1>1, <1>2, <1>3 DEF FullInv, PendingInv
<1>6. LoopInv' /\ LastInv'
  BY <1>1, <1>2 DEF FullInv, LoopInv, LastInv, Over
<1>7. EndInv'
  BY <1>1, <1>2, <1>3, ReachedFacts DEF FullInv, EndInv, FullType
<1>8. KeptInv'
  BY <1>1, <1>2, <1>3, ReachedFacts DEF FullInv, KeptInv
<1> QED
  BY <1>3, <1>4, <1>5, <1>6, <1>7, <1>8 DEF FullInv

LEMMA ListEndsStep ==
  ASSUME FullInv, Full!ListEnds
  PROVE  FullInv'
<1>1. /\ at = "list" /\ next > Len(Kinds) /\ listing' = FALSE /\ at' = "rest"
      /\ UNCHANGED Static /\ tasks' = tasks /\ troubles' = troubles /\ broken' = broken
  BY DEF Full!ListEnds, Static, Full!environment
<1>2. /\ FullType' /\ FlowInv' /\ CountInv'
      /\ Kept' = Kept /\ Listed' = Listed /\ Counted' = Counted
      /\ next' = next /\ items' = items /\ calls' = calls /\ count' = count
      /\ platform' = platform /\ limit' = limit /\ batch' = batch /\ size' = size
      /\ (Full!UsesTasks' <=> Full!UsesTasks) /\ (Full!Collects' <=> Full!Collects)
  BY <1>1, Turning DEF FullInv, FullType, Stages
<1>3. TaskInv'
  BY <1>1, <1>2 DEF FullInv, TaskInv
<1>4. PendingInv'
  BY <1>1, <1>2 DEF FullInv, PendingInv
<1>5. LoopInv' /\ LastInv' /\ EndInv' /\ KeptInv'
  BY <1>1, <1>2 DEF FullInv, LoopInv, LastInv, EndInv, KeptInv, Over
<1> QED
  BY <1>2, <1>3, <1>4, <1>5 DEF FullInv

LEMMA ListFailsStep ==
  ASSUME FullInv, Full!ListFails
  PROVE  FullInv'
<1>1. /\ at = "list" /\ at' = "report" /\ broken' = TRUE /\ troubles' = troubles + 1
      /\ UNCHANGED Static /\ tasks' = tasks /\ listing' = listing
  BY DEF Full!ListFails, Static
<1>2. /\ FullType' /\ FlowInv' /\ CountInv'
      /\ Kept' = Kept /\ Listed' = Listed /\ Counted' = Counted
      /\ next' = next /\ items' = items /\ calls' = calls /\ count' = count
      /\ platform' = platform /\ limit' = limit /\ batch' = batch /\ size' = size
      /\ (Full!UsesTasks' <=> Full!UsesTasks) /\ (Full!Collects' <=> Full!Collects)
  BY <1>1, Turning DEF FullInv, FullType, Stages
<1>3. TaskInv'
  BY <1>1, <1>2 DEF FullInv, TaskInv
<1>4. PendingInv'
  BY <1>1, <1>2 DEF FullInv, PendingInv
<1>5. LoopInv' /\ LastInv' /\ EndInv' /\ KeptInv'
  BY <1>1, <1>2 DEF FullInv, LoopInv, LastInv, EndInv, KeptInv, Over
<1> QED
  BY <1>2, <1>3, <1>4, <1>5 DEF FullInv

LEMMA AwaitedStep ==
  ASSUME FullInv, Full!Awaited
  PROVE  FullInv'
<1>1. /\ at = "await" /\ calls = {} /\ at' = IF listing THEN "bound" ELSE "rest"
      /\ UNCHANGED Static /\ tasks' = tasks /\ listing' = listing /\ troubles' = troubles
      /\ broken' = broken
  BY DEF Full!Awaited, Static, Full!environment
<1>2. /\ FullType' /\ FlowInv' /\ CountInv'
      /\ Kept' = Kept /\ Listed' = Listed /\ Counted' = Counted
      /\ next' = next /\ items' = items /\ calls' = calls /\ count' = count
      /\ platform' = platform /\ limit' = limit /\ batch' = batch /\ size' = size
      /\ (Full!UsesTasks' <=> Full!UsesTasks) /\ (Full!Collects' <=> Full!Collects)
  BY <1>1, Turning DEF FullInv, FullType, Stages
<1>3. at' \in {"bound", "rest"} /\ (at' = "bound" <=> listing)
  BY <1>1 DEF FullInv, FullType
<1>4. TaskInv'
  BY <1>1, <1>2, <1>3 DEF FullInv, TaskInv
<1>5. PendingInv'
  <2>1. ~(Full!Collects /\ at' = "bound")
    BY <1>1, <1>3 DEF FullInv, LoopInv
  <2>2. ~Full!Collects => items = <<>> /\ size > 0 /\ Len(items) = 0
    BY <1>1 DEF FullInv, PendingInv
  <2> QED
    BY <1>1, <1>2, <1>3, <2>1, <2>2 DEF FullInv, PendingInv
<1>6. LoopInv' /\ LastInv' /\ EndInv'
  BY <1>1, <1>2, <1>3 DEF FullInv, LoopInv, LastInv, EndInv, Over
<1>7. KeptInv'
  <2>1. platform = "s3" => items = <<>>
    BY <1>1 DEF FullInv, PendingInv, Full!Collects
  <2> QED
    BY <1>2, <1>3, <2>1 DEF FullInv, KeptInv
<1> QED
  BY <1>2, <1>4, <1>5, <1>6, <1>7 DEF FullInv

LEMMA GatheredStep ==
  ASSUME FullInv, Full!Gathered
  PROVE  FullInv'
<1>1. /\ at = "gather" /\ at' = IF listing THEN "bound" ELSE "rest"
      /\ UNCHANGED Static /\ tasks' = Cardinality(calls) /\ listing' = listing
      /\ troubles' = troubles /\ broken' = broken
  BY FullNames DEF Full!Gathered, Static, Full!environment
<1>2. Cardinality(calls) \in Nat /\ IsFiniteSet(calls)
  BY Numbers DEF FullInv
<1>3. /\ FullType' /\ FlowInv' /\ CountInv'
      /\ Kept' = Kept /\ Listed' = Listed /\ Counted' = Counted
      /\ next' = next /\ items' = items /\ calls' = calls /\ count' = count
      /\ platform' = platform /\ limit' = limit /\ batch' = batch /\ size' = size
      /\ (Full!UsesTasks' <=> Full!UsesTasks) /\ (Full!Collects' <=> Full!Collects)
  BY <1>1, <1>2, Turning DEF FullInv, FullType, Stages
<1>4. at' \in {"bound", "rest"} /\ (at' = "bound" <=> listing)
  BY <1>1 DEF FullInv, FullType
<1>5. Full!UsesTasks /\ ~batch
  BY <1>1 DEF FullInv, TaskInv, Full!UsesTasks
<1>6. TaskInv'
  <2>1. Cardinality(calls) <= tasks /\ tasks \in Nat /\ (items # <<>> => tasks = 0)
        /\ \A c \in calls : \E o \in Full!Objects : c.objs = {o}
    BY <1>5 DEF FullInv, TaskInv, FullType
  <2>2. items # <<>> => Cardinality(calls) = 0
    BY <1>2, <2>1
  <2> QED
    BY <1>1, <1>2, <1>3, <1>4, <1>5, <2>1, <2>2 DEF TaskInv
<1>7. PendingInv'
  <2>1. ~(Full!Collects /\ at' = "bound")
    BY <1>1, <1>4 DEF FullInv, LoopInv
  <2>2. ~Full!Collects => items = <<>> /\ size > 0 /\ Len(items) = 0
    BY <1>5 DEF FullInv, PendingInv
  <2> QED
    BY <1>1, <1>3, <1>4, <2>1, <2>2 DEF FullInv, PendingInv
<1>8. LoopInv' /\ LastInv' /\ EndInv'
  BY <1>1, <1>3, <1>4 DEF FullInv, LoopInv, LastInv, EndInv, Over
<1>9. KeptInv'
  BY <1>3, <1>4, <1>5 DEF FullInv, KeptInv, Full!UsesTasks
<1> QED
  BY <1>3, <1>6, <1>7, <1>8, <1>9 DEF FullInv

LEMMA ReportStep ==
  ASSUME FullInv, Full!Report
  PROVE  FullInv'
<1>1. /\ at = "report" /\ at' \in {"done", "unreported"} /\ troubles' \in Nat
      /\ UNCHANGED Static /\ tasks' = tasks /\ listing' = listing /\ broken' = broken
  BY DEF Full!Report, Full!Reports, Static, FullInv, FullType
<1>2. /\ FullType' /\ FlowInv' /\ CountInv'
      /\ Kept' = Kept /\ Listed' = Listed /\ Counted' = Counted
      /\ next' = next /\ items' = items /\ calls' = calls /\ count' = count
      /\ platform' = platform /\ limit' = limit /\ batch' = batch /\ size' = size
      /\ (Full!UsesTasks' <=> Full!UsesTasks) /\ (Full!Collects' <=> Full!Collects)
  BY <1>1, Turning DEF FullInv, FullType, Stages
<1>3. TaskInv' /\ PendingInv'
  BY <1>1, <1>2 DEF FullInv, TaskInv, PendingInv
<1>4. LoopInv' /\ LastInv' /\ EndInv' /\ KeptInv'
  BY <1>1, <1>2 DEF FullInv, LoopInv, LastInv, EndInv, KeptInv, Over
<1> QED
  BY <1>2, <1>3, <1>4 DEF FullInv

\* Nothing that IInv speaks of changes.
LEMMA IdleStep ==
  ASSUME FullInv, UNCHANGED <<Full!setup, Full!control, Full!requests, troubles, broken>>
  PROVE  FullInv'
<1>1. /\ UNCHANGED Static /\ at' = at /\ tasks' = tasks /\ listing' = listing
      /\ broken' = broken /\ troubles' = troubles
  BY DEF Static, Full!control
<1>2. /\ FullType' /\ FlowInv' /\ CountInv'
      /\ Kept' = Kept /\ Listed' = Listed /\ Counted' = Counted
      /\ next' = next /\ items' = items /\ calls' = calls /\ count' = count
      /\ platform' = platform /\ limit' = limit /\ batch' = batch /\ size' = size
      /\ (Full!UsesTasks' <=> Full!UsesTasks) /\ (Full!Collects' <=> Full!Collects)
  BY <1>1, Turning DEF FullInv, FullType
<1>3. TaskInv' /\ PendingInv'
  BY <1>1, <1>2 DEF FullInv, TaskInv, PendingInv
<1>4. LoopInv' /\ LastInv' /\ EndInv' /\ KeptInv'
  BY <1>1, <1>2 DEF FullInv, LoopInv, LastInv, EndInv, KeptInv, Over
<1> QED
  BY <1>2, <1>3, <1>4 DEF FullInv

LEMMA FlushStep ==
  ASSUME FullInv, Full!Flush
  PROVE  FullInv'
<1> DEFINE n == Full!Lesser(size, Len(items))
           sent == Range(SubSeq(items, 1, n))
<1>1. /\ at = "flush" /\ at' = "await"
      /\ calls' = calls \cup {Full!Call(sent)} /\ items' = SubSeq(items, n + 1, Len(items))
      /\ listing' = listing /\ next' = next /\ seen' = seen /\ tasks' = tasks
      /\ count' = count /\ asked' = asked /\ answer' = answer
      /\ troubles' = troubles /\ broken' = broken /\ UNCHANGED Full!setup
  BY FullNames DEF Full!Flush, Full!Flushed, Full!environment
<1>2. items \in Seq(Full!Objects) /\ size \in Nat
  BY DEF FullInv, FullType
<1>3. /\ Len(items) \in Nat /\ \A i \in 1 .. Len(items) : items[i] \in Full!Objects
      /\ Range(items) = {items[j] : j \in 1 .. Len(items)}
  BY <1>2, Elements
<1>4. n \in Nat /\ n <= Len(items) /\ (Len(items) <= size => n = Len(items))
  BY <1>2, <1>3 DEF Full!Lesser
<1>5. /\ SubSeq(items, 1, n) \in Seq(Full!Objects) /\ items' \in Seq(Full!Objects)
      /\ Len(items') = Len(items) - n
      /\ \A i \in 1 .. Len(items) - n : items'[i] = items[n + i]
      /\ sent = {items[i] : i \in 1 .. n}
      /\ Range(items') = {items[i] : i \in n + 1 .. Len(items)}
  BY <1>1, <1>2, <1>4, Cutting
<1> HIDE DEF n, sent
<1>6. /\ platform' = platform /\ limit' = limit /\ batch' = batch /\ size' = size
      /\ (Full!UsesTasks' <=> Full!UsesTasks) /\ (Full!Collects' <=> Full!Collects)
      /\ \A o : Full!Eligible(o)' <=> Full!Eligible(o)
  BY <1>1, SetupStays
<1>7. ~Full!UsesTasks /\ calls = {} /\ tasks = 0
  BY <1>1 DEF FullInv, TaskInv
<1>8. sent \subseteq Full!Objects
  BY <1>3, <1>4, <1>5
<1>9. Full!Call(sent) \in CallSet /\ Full!Call(sent).objs = sent /\ calls' = {Full!Call(sent)}
  BY <1>1, <1>7, <1>8 DEF Full!Call, CallSet
<1>10. \A i, j \in 1 .. Len(items) : items[i] = items[j] => i = j
  BY DEF FullInv, FlowInv, ItemInv
<1>11. sent \cup Range(items') = Range(items)
  <2>1. \A i \in 1 .. Len(items) : i \in 1 .. n \/ i \in n + 1 .. Len(items)
    BY <1>3, <1>4
  <2>2. 1 .. n \subseteq 1 .. Len(items) /\ n + 1 .. Len(items) \subseteq 1 .. Len(items)
    BY <1>3, <1>4
  <2>3. Range(items) \subseteq sent \cup Range(items')
    <3> SUFFICES ASSUME NEW o \in Range(items)
                 PROVE  o \in sent \cup Range(items')
      OBVIOUS
    <3>1. PICK i \in 1 .. Len(items) : o = items[i]
      BY <1>3
    <3>2. CASE i \in 1 .. n
      BY <1>5, <3>1, <3>2
    <3>3. CASE i \in n + 1 .. Len(items)
      BY <1>5, <3>1, <3>3
    <3> QED
      BY <2>1, <3>2, <3>3
  <2>4. sent \cup Range(items') \subseteq Range(items)
    BY <1>3, <1>5, <2>2
  <2> QED
    BY <2>3, <2>4
<1>12. sent \cap Range(items') = {}
  <2>1. ASSUME NEW i \in 1 .. n, NEW j \in n + 1 .. Len(items)
        PROVE  items[i] # items[j]
    <3>1. i \in 1 .. Len(items) /\ j \in 1 .. Len(items) /\ i # j
      BY <1>3, <1>4
    <3> QED
      BY <1>10, <3>1
  <2> QED
    BY <1>5, <2>1
<1>13. /\ \A o : InCall(o)' <=> o \in sent
       /\ \A o : Waits(o)' <=> o \in Range(items')
       /\ \A o : Waits(o) <=> o \in sent \/ o \in Range(items')
       /\ \A o : ~InCall(o)
       /\ Listed' = Listed /\ Counted' = Counted
  BY <1>1, <1>6, <1>7, <1>9, <1>11 DEF InCall, Waits, Listed, Counted
<1>14. Kept' = Kept
  BY <1>1, <1>13 DEF Kept
<1>15. FullType'
  BY <1>1, <1>5, <1>6, <1>9 DEF FullInv, FullType, Stages
<1>16. CallInv'
  BY <1>9 DEF CallInv
<1>17. ItemInv'
  <2> SUFFICES ASSUME NEW i \in 1 .. Len(items'), NEW j \in 1 .. Len(items'),
                      items'[i] = items'[j]
               PROVE  i = j
    BY DEF ItemInv
  <2>1. items'[i] = items[n + i] /\ items'[j] = items[n + j]
    BY <1>5
  <2>2. n + i \in 1 .. Len(items) /\ n + j \in 1 .. Len(items)
    BY <1>3, <1>4, <1>5
  <2>3. n + i = n + j
    BY <1>10, <2>1, <2>2
  <2> QED
    BY <1>3, <1>4, <1>5, <2>3
<1>18. ObjectInv'
  <2>1. \A o : o \in sent => o \notin Range(items')
    BY <1>12
  <2> QED
    BY <1>1, <1>13, <2>1 DEF FullInv, FlowInv, ObjectInv
<1>19. CountInv'
  BY <1>1, <1>13 DEF FullInv, CountInv
<1>20. TaskInv'
  BY <1>1, <1>6, <1>7 DEF TaskInv
<1>21. PendingInv'
  <2>1. ~Full!Collects => size > 0 /\ Len(items') = 0
    BY <1>3, <1>4, <1>5 DEF FullInv, PendingInv
  <2>2. Len(items') = 0 => items' = <<>>
    BY <1>5, EmptySeq
  <2>3. ~Full!Collects => size > 0 /\ items' = <<>> /\ Len(items') <= size
    BY <1>2, <2>1, <2>2
  <2>4. at' \notin {"list", "bound"}
    BY <1>1
  <2> QED
    BY <1>6, <2>3, <2>4 DEF PendingInv
<1>22. LoopInv' /\ LastInv' /\ EndInv' /\ KeptInv'
  BY <1>1, <1>6, <1>13, <1>14 DEF FullInv, LoopInv, LastInv, EndInv, KeptInv, Over
<1> QED
  BY <1>15, <1>16, <1>17, <1>18, <1>19, <1>20, <1>21, <1>22 DEF FullInv, FlowInv

\* All tasks are created at once.
LEMMA RestTasks ==
  ASSUME FullInv, Full!Rest, Full!Remaining, Full!UsesTasks
  PROVE  FullInv'
<1>1. /\ at = "rest" /\ at' = "gather"
      /\ calls' = {Full!Call({o}) : o \in Range(items)} /\ tasks' = Len(items) /\ items' = <<>>
      /\ listing' = listing /\ next' = next /\ seen' = seen
      /\ count' = count /\ asked' = asked /\ answer' = answer
      /\ troubles' = troubles /\ broken' = broken /\ UNCHANGED Full!setup
  BY FullNames DEF Full!Rest, Full!environment
<1>2. items \in Seq(Full!Objects)
  BY DEF FullInv, FullType
<1>3. /\ Len(items) \in Nat /\ Range(items) \subseteq Full!Objects /\ IsFiniteSet(Range(items))
      /\ Cardinality(Range(items)) = Len(items)
  BY <1>2, Elements DEF FullInv, FlowInv, ItemInv
<1>4. /\ platform' = platform /\ limit' = limit /\ batch' = batch /\ size' = size
      /\ (Full!UsesTasks' <=> Full!UsesTasks) /\ (Full!Collects' <=> Full!Collects)
      /\ \A o : Full!Eligible(o)' <=> Full!Eligible(o)
  BY <1>1, SetupStays
<1>5. calls = {} /\ ~batch
  <2>1. tasks = 0 /\ Cardinality(calls) <= tasks
    BY DEF Full!Remaining, FullInv, TaskInv
  <2>2. IsFiniteSet(calls) /\ Cardinality(calls) \in Nat
    BY Numbers DEF FullInv
  <2>3. Cardinality(calls) = 0
    BY <2>1, <2>2
  <2> QED
    BY <2>2, <2>3, FS_EmptySet DEF Full!UsesTasks
<1>6. \A o \in Range(items) : Full!Call({o}) \in CallSet /\ Full!Call({o}).objs = {o}
  BY <1>3 DEF Full!Call, CallSet
<1>7. \A c \in calls' : \E o \in Range(items) : c = Full!Call({o}) /\ c.objs = {o}
      /\ o \in Full!Objects
  BY <1>1, <1>3, <1>6
<1>8. Range(<<>>) = {}
  BY DEF Range
<1>9. /\ \A o : InCall(o)' <=> o \in Range(items)
      /\ \A o : ~Waits(o)'
      /\ \A o : Waits(o) <=> o \in Range(items)
      /\ \A o : ~InCall(o)
      /\ Listed' = Listed /\ Counted' = Counted
  <2>1. \A o : InCall(o)' => o \in Range(items)
    BY <1>7 DEF InCall
  <2>2. ASSUME NEW o \in Range(items)
        PROVE  InCall(o)'
    <3>1. Full!Call({o}) \in calls' /\ o \in Full!Call({o}).objs
      BY <1>1, <1>6, <2>2
    <3> QED
      BY <3>1 DEF InCall
  <2> QED
    BY <1>1, <1>4, <1>5, <1>8, <2>1, <2>2 DEF InCall, Waits, Listed, Counted
<1>10. Kept' = Kept
  BY <1>1, <1>9 DEF Kept
<1>11. FullType'
  <2>1. calls' \subseteq CallSet
    BY <1>1, <1>6
  <2>2. items' \in Seq(Full!Objects) /\ tasks' \in Nat
    BY <1>1, <1>3
  <2> QED
    BY <1>1, <1>4, <2>1, <2>2 DEF FullInv, FullType, Stages
<1>12. CallInv'
  <2> SUFFICES ASSUME NEW c \in calls', NEW d \in calls', NEW o \in c.objs, o \in d.objs
               PROVE  c = d
    BY DEF CallInv
  <2>1. PICK p \in Range(items) : c = Full!Call({p}) /\ c.objs = {p}
    BY <1>7
  <2>2. PICK q \in Range(items) : d = Full!Call({q}) /\ d.objs = {q}
    BY <1>7
  <2> QED
    BY <2>1, <2>2
<1>13. ItemInv'
  BY <1>1 DEF ItemInv
<1>14. ObjectInv'
  BY <1>1, <1>9 DEF FullInv, FlowInv, ObjectInv
<1>15. CountInv'
  BY <1>1, <1>9 DEF FullInv, CountInv
<1>16. TaskInv'
  <2> DEFINE make == [o \in Range(items) |-> Full!Call({o})]
  <2>1. make \in Surjection(Range(items), calls')
    BY <1>1 DEF Surjection
  <2>2. Cardinality(calls') <= Len(items)
    BY <1>3, <2>1, FS_Surjection
  <2> QED
    BY <1>1, <1>4, <1>7, <2>2 DEF TaskInv
<1>17. PendingInv'
  <2>1. Full!Collects \/ (~Full!Collects /\ Len(items') = 0 /\ items' = <<>>)
    BY <1>1
  <2> QED
    BY <1>1, <1>4, <2>1 DEF FullInv, PendingInv, FullType
<1>18. LoopInv' /\ LastInv' /\ EndInv' /\ KeptInv'
  BY <1>1, <1>4, <1>9, <1>10 DEF FullInv, LoopInv, LastInv, EndInv, KeptInv, Over
<1> QED
  BY <1>11, <1>12, <1>13, <1>14, <1>15, <1>16, <1>17, <1>18 DEF FullInv, FlowInv

LEMMA RestStep ==
  ASSUME FullInv, Full!Rest
  PROVE  FullInv'
<1>1. CASE Full!Remaining /\ Full!UsesTasks
  BY <1>1, RestTasks
<1>2. CASE ~(Full!Remaining /\ Full!UsesTasks)
  <2>1. /\ at = "rest" /\ UNCHANGED Static /\ tasks' = tasks /\ listing' = listing
        /\ troubles' = troubles /\ broken' = broken
        /\ at' = IF Full!Remaining THEN "flush" ELSE IF tasks > 0 THEN "gather" ELSE "report"
    BY <1>2 DEF Full!Rest, Static, Full!requests, Full!environment
  <2>2. /\ FullType' /\ FlowInv' /\ CountInv'
        /\ Kept' = Kept /\ Listed' = Listed /\ Counted' = Counted
        /\ next' = next /\ items' = items /\ calls' = calls /\ count' = count
        /\ platform' = platform /\ limit' = limit /\ batch' = batch /\ size' = size
        /\ (Full!UsesTasks' <=> Full!UsesTasks) /\ (Full!Collects' <=> Full!Collects)
    BY <2>1, Turning DEF FullInv, FullType, Stages
  <2>3. /\ at' \in {"flush", "gather", "report"}
        /\ at' = "flush" => Full!Remaining /\ ~Full!UsesTasks
        /\ at' = "gather" => tasks > 0
        /\ at' = "report" => ~Full!Remaining /\ ~(tasks > 0)
    BY <1>2, <2>1
  <2>4. tasks > 0 => Full!UsesTasks
    BY DEF FullInv, TaskInv
  <2>5. TaskInv'
    BY <2>1, <2>2, <2>3, <2>4 DEF FullInv, TaskInv
  <2>6. PendingInv'
    BY <2>1, <2>2, <2>3 DEF FullInv, PendingInv
  <2>7. ~listing /\ ~broken
    BY <2>1 DEF FullInv, LoopInv, Over
  <2>8. ASSUME at' = "report"
        PROVE  calls = {} /\ (items = <<>> \/ (limit > 0 /\ count >= limit))
    <3>1. ~Full!Remaining /\ tasks = 0
      BY <2>3, <2>8 DEF FullInv, FullType
    <3>2. IsFiniteSet(calls) /\ Cardinality(calls) \in Nat
      BY Numbers DEF FullInv
    <3>3. calls = {}
      <4>1. CASE Full!UsesTasks
        <5>1. Cardinality(calls) = 0
          BY <3>1, <3>2, <4>1 DEF FullInv, TaskInv
        <5> QED
          BY <3>2, <5>1, FS_EmptySet
      <4>2. CASE ~Full!UsesTasks
        BY <2>1, <4>2 DEF FullInv, TaskInv
      <4> QED
        BY <4>1, <4>2
    <3>4. count \in Nat /\ limit \in Nat
      BY DEF FullInv, FullType
    <3> QED
      BY <3>1, <3>3, <3>4 DEF Full!Remaining
  <2>9. LoopInv' /\ LastInv' /\ EndInv' /\ KeptInv'
    BY <2>1, <2>2, <2>3, <2>7, <2>8 DEF FullInv, LoopInv, LastInv, EndInv, KeptInv, Over
  <2> QED
    BY <2>2, <2>5, <2>6, <2>9 DEF FullInv
<1> QED
  BY <1>1, <1>2
-----------------------------------------------------------------------------
LEMMA FullStarts ==
  Full!Init => FullInv
<1> SUFFICES ASSUME Full!Init PROVE FullInv
  OBVIOUS
<1>1. /\ platform \in Full!Platforms /\ limit \in Limits /\ batch \in BOOLEAN
      /\ at = "list" /\ listing = TRUE /\ next = 1 /\ seen = 0 /\ items = <<>>
      /\ calls = {} /\ tasks = 0 /\ count = 0
      /\ asked = [o \in Full!Objects |-> 0] /\ answer = [o \in Full!Objects |-> "none"]
      /\ broken = FALSE /\ troubles = 0
  BY DEF Full!Init
<1>2. size \in Nat /\ (~Full!Collects => size > 0)
  <2>1. CASE batch
    <3>1. PICK r \in Requested : size = Full!effective_batch_size(r)
      BY <2>1 DEF Full!Init
    <3>2. r \in Nat /\ DefaultSize \in Nat \ {0} /\ MaxSize \in Nat \ {0} /\ Len(Kinds) \in Nat
      BY FullConstants, ObjectFacts
    <3> QED
      BY <3>1, <3>2 DEF Full!effective_batch_size, Full!Lesser
  <2>2. CASE ~batch
    BY <2>2 DEF Full!Init
  <2> QED
    BY <2>1, <2>2
<1>3. Limits \subseteq Nat /\ Len(Kinds) \in Nat /\ Len(items) = 0
  BY <1>1, FullConstants, ObjectFacts
<1>4. Range(<<>>) = {}
  BY DEF Range
<1>5. /\ \A o : ~Waits(o) /\ ~InCall(o)
      /\ Listed = {} /\ Counted = {} /\ Kept = {} /\ ~Over
  <2>1. \A o \in Full!Objects : ~(o < 1)
    BY ObjectFacts
  <2>2. \A o : ~Waits(o) /\ ~InCall(o)
    BY <1>1, <1>4 DEF Waits, InCall
  <2>3. \A o \in Full!Objects : answer[o] = "none"
    BY <1>1
  <2>4. Listed = {} /\ Counted = {}
    BY <1>1, <2>1, <2>3 DEF Listed, Counted
  <2>5. Kept = {}
    BY <2>2, <2>3 DEF Kept
  <2>6. ~Over
    BY <1>1 DEF Over
  <2> QED
    BY <2>2, <2>4, <2>5, <2>6
<1>6. Cardinality({}) = 0
  BY FS_EmptySet
<1>7. FullType
  <2>1. calls \subseteq CallSet /\ items \in Seq(Full!Objects)
    BY <1>1
  <2>2. asked \in [Full!Objects -> Nat] /\ answer \in [Full!Objects -> Outcomes]
    BY <1>1 DEF Outcomes
  <2>3. next \in Nat \ {0} /\ next <= Len(Kinds) + 1
    BY <1>1, <1>3
  <2> QED
    BY <1>1, <1>2, <1>3, <2>1, <2>2, <2>3 DEF FullType, Stages
<1>8. CallInv /\ ItemInv
  BY <1>1, <1>3 DEF CallInv, ItemInv
<1>9. ObjectInv
  BY <1>1, <1>5 DEF ObjectInv
<1>10. CountInv
  BY <1>1, <1>5, <1>6 DEF CountInv
<1>11. TaskInv
  BY <1>1, <1>6 DEF TaskInv
<1>12. PendingInv
  BY <1>1, <1>2, <1>3, <1>5 DEF PendingInv
<1>13. LoopInv /\ LastInv /\ EndInv
  BY <1>1, <1>5 DEF LoopInv, LastInv, EndInv
<1>14. KeptInv
  BY <1>1, <1>3, <1>5, <1>6 DEF KeptInv
<1> QED
  BY <1>7, <1>8, <1>9, <1>10, <1>11, <1>12, <1>13, <1>14 DEF FullInv, FlowInv

LEMMA FullStep ==
  FullInv /\ [Full!Next]_(Full!vars) => FullInv'
<1> SUFFICES ASSUME FullInv, [Full!Next]_(Full!vars) PROVE FullInv'
  OBVIOUS
<1>1. ASSUME NEW c \in calls, Full!Request(c) \/ Full!Fails(c)
      PROVE  FullInv'
  BY <1>1, RequestSteps
<1>2. CASE Full!Handler
  BY <1>2, SkipStep, CollectStep, EnqueueStep, BoundStep, ListEndsStep, FlushStep, AwaitedStep,
     GatheredStep, RestStep, ReportStep DEF Full!Handler
<1>3. CASE Full!ListFails
  BY <1>3, ListFailsStep
<1>4. CASE Full!Registered \/ Full!Pause
  <2>1. UNCHANGED <<Full!setup, Full!control, Full!requests, troubles, broken>>
    BY <1>4 DEF Full!Registered, Full!Pause
  <2> QED
    BY <2>1, IdleStep
<1>5. CASE UNCHANGED Full!vars
  <2>1. UNCHANGED <<Full!setup, Full!control, Full!requests, troubles, broken>>
    BY <1>5 DEF Full!vars, Full!environment
  <2> QED
    BY <2>1, IdleStep
<1> QED
  BY <1>1, <1>2, <1>3, <1>4, <1>5 DEF Full!Next

LEMMA FullInvariance ==
  Full!Spec => []FullInv
  BY FullStarts, FullStep, PTL DEF Full!Spec

\* The end is reported after the last answer.  Nothing is asked for twice; without a limit
\* every file has been asked for once, or its request was skipped, held back or refused.
THEOREM ScansAreComplete ==
  Full!Spec => []ScanComplete
<1>1. FullInv => ScanComplete
  <2> SUFFICES ASSUME FullInv PROVE ScanComplete
    OBVIOUS
  <2>1. \A o \in Full!Objects : asked[o] \in {0, 1}
    BY DEF FullInv, FlowInv, ObjectInv
  <2>2. \A o \in Full!Objects : asked[o] <= 1
    BY <2>1
  <2>3. ASSUME at = "done", ~broken
        PROVE  calls = {}
    BY <2>3 DEF FullInv, LastInv, Over
  <2>4. ASSUME at = "done", ~broken, limit = 0, NEW o \in Full!PlainFiles
        PROVE  asked[o] = 1 \/ answer[o] \in {"skipped", "held", "refused"}
    <3>1. calls = {} /\ items = <<>> /\ ~listing
      BY <2>4 DEF FullInv, LastInv, LoopInv, Over
    <3>2. next > Len(Kinds)
      BY <2>4, <3>1 DEF FullInv, EndInv
    <3>3. o \in Full!Objects /\ Kinds[o] = "file" /\ o < next
      BY <2>4, <3>2, ObjectFacts DEF Full!PlainFiles, FullInv, FullType
    <3>4. o \in Listed
      BY <3>3 DEF Listed, Full!Eligible
    <3>5. ~InCall(o) /\ ~Waits(o)
      BY <3>1 DEF InCall, Waits, Range
    <3>6. answer[o] # "none" /\ answer[o] \in Outcomes
      BY <3>3, <3>4, <3>5 DEF FullInv, FlowInv, ObjectInv, FullType
    <3>7. answer[o] \in {"queued", "lost"} => asked[o] = 1
      BY <3>3 DEF FullInv, FlowInv, ObjectInv
    <3> QED
      BY <3>6, <3>7 DEF Outcomes
  <2> QED
    BY <2>2, <2>3, <2>4 DEF ScanComplete, Full!ScanComplete
<1> QED
  BY <1>1, FullInvariance, PTL

\* No more is asked for than the limit, and what is left out is left out because that many have
\* been tried.
THEOREM LimitsAreKept ==
  Full!Spec => []LimitKept
<1>1. FullInv => LimitKept
  <2> SUFFICES ASSUME FullInv, limit > 0 PROVE LimitKept
    BY DEF LimitKept, Full!LimitKept
  <2>1. /\ IsFiniteSet(Kept) /\ IsFiniteSet(Counted) /\ IsFiniteSet(Listed)
        /\ Cardinality(Kept) \in Nat /\ Cardinality(Counted) \in Nat /\ Cardinality(Listed) \in Nat
        /\ count = Cardinality(Counted) /\ limit \in Nat
    BY Numbers DEF FullInv, CountInv, FullType
  <2>2. ASSUME platform = "azure" => batch, "lost" \notin Full!Answers
        PROVE  Cardinality(Full!Queued) <= limit
    <3>1. \A o \in Full!Objects : answer[o] # "lost"
      BY <2>2, FullNames DEF Full!Answers, Range, FullInv, FullType
    <3>2. Full!Queued \subseteq Kept
      <4> SUFFICES ASSUME NEW o \in Full!Objects, asked[o] > 0
                   PROVE  answer[o] = "queued"
        BY DEF Full!Queued, Kept
      <4>1. asked[o] \in {0, 1} /\ (asked[o] = 1 => answer[o] \in {"queued", "lost"})
        BY DEF FullInv, FlowInv, ObjectInv
      <4> QED
        BY <3>1, <4>1
    <3>3. IsFiniteSet(Full!Queued) /\ Cardinality(Full!Queued) <= Cardinality(Kept)
      BY <2>1, <3>2, FS_Subset
    <3>4. Cardinality(Full!Queued) \in Nat
      BY <3>3, FS_CardinalityType
    <3>5. Cardinality(Kept) <= limit
      BY <2>2 DEF FullInv, KeptInv
    <3> QED
      BY <2>1, <3>3, <3>4, <3>5
  <2>3. ASSUME at = "done", ~broken, platform = "sharepoint" => batch, NEW o \in Full!PlainFiles,
               answer[o] = "none"
        PROVE  Cardinality(Full!Tried) >= limit
    <3>1. calls = {} /\ (items = <<>> \/ count >= limit) /\ ~listing
      BY <2>3 DEF FullInv, LastInv, LoopInv, Over
    <3>2. next > Len(Kinds) \/ Cardinality(Listed) >= limit
      BY <2>3, <3>1 DEF FullInv, EndInv
    <3>3. IsFiniteSet(Full!Tried) /\ Cardinality(Full!Tried) \in Nat
      <4>1. Full!Tried \subseteq Full!Objects
        BY DEF Full!Tried
      <4> QED
        BY <4>1, ObjectFacts, FS_Subset, FS_CardinalityType
    <3>4. CASE count >= limit
      <4>1. Counted \subseteq Full!Tried
        BY DEF Counted, Full!Tried
      <4>2. Cardinality(Counted) <= Cardinality(Full!Tried)
        BY <3>3, <4>1, FS_Subset
      <4> QED
        BY <2>1, <3>3, <3>4, <4>2
    <3>5. CASE items = <<>>
      <4>1. \A p : ~InCall(p) /\ ~Waits(p)
        BY <3>1, <3>5 DEF InCall, Waits, Range
      <4>2. Listed \subseteq Full!Tried
        BY <4>1 DEF Listed, Full!Tried, FullInv, FlowInv, ObjectInv
      <4>3. o \in Full!Objects /\ Kinds[o] = "file" /\ o \notin Listed
        BY <2>3, <4>2 DEF Full!PlainFiles, Full!Tried
      <4>4. ~(next > Len(Kinds))
        BY <4>3, ObjectFacts DEF Listed, Full!Eligible, FullInv, FullType
      <4>5. Cardinality(Listed) <= Cardinality(Full!Tried)
        BY <3>3, <4>2, FS_Subset
      <4> QED
        BY <2>1, <3>2, <3>3, <4>4, <4>5
    <3> QED
      BY <3>1, <3>4, <3>5
  <2> QED
    BY <2>2, <2>3, FullNames DEF LimitKept, Full!LimitKept
<1> QED
  BY <1>1, FullInvariance, PTL
-----------------------------------------------------------------------------
(***************************************************************************)
(* FolderScan: the jobs, their workers and the files.                      *)
(***************************************************************************)
States == {"none", "starting", "scanning", "done", "canceled", "error"}
Places == {"folder", "both", "quarantine", "overwritten"}
JobSet == [state : States, todo : SUBSET Folder!Paths, total : Nat, ok : Nat, failed : Nat,
           cancel : BOOLEAN]
WorkerSet == [at : {"check", "take", "scan", "move", "copy", "remove", "exit"},
              path : Folder!Paths \cup {<<>>}]
Messages == [kind : {"ended", "resolved", "rejected"}, job : Folder!Jobs]

\* The shape of the state.
FolderType ==
    /\ app \in {"tauri", "electron"} /\ plan \in Plans /\ quarantine_enabled \in BOOLEAN
    /\ place \in [Files -> Places]
    /\ job \in [Folder!Jobs -> JobSet]
    /\ worker \in [Folder!Jobs -> [Folder!Threads -> WorkerSet]]
    /\ counted \in [Folder!Jobs -> [Folder!Paths -> Nat]]
    /\ late \in [Folder!Jobs -> Nat]
    /\ reported \subseteq Files /\ spoiled \subseteq Folder!Names
    /\ wire \in Seq(Messages) /\ answers \subseteq Folder!Jobs
    /\ active \in Folder!Jobs \cup {0}
    /\ mishaps \in Nat

\* What a plan is, and that there are finitely many workers and paths.
LEMMA PlanFacts ==
  ASSUME FolderType
  PROVE  /\ plan.concurrency \in Nat \ {0} /\ plan.jobs \in Nat /\ plan.folder \subseteq Files
         /\ IsFiniteSet(Folder!Threads) /\ Cardinality(Folder!Threads) = plan.concurrency
              /\ Folder!Threads # {}
         /\ IsFiniteSet(Folder!Paths) /\ 0 \notin Folder!Jobs
<1>1. plan \in [folder : SUBSET Files, concurrency : Nat \ {0}, jobs : Nat]
  BY FolderConstants DEF FolderType
<1>2. plan.concurrency \in Nat \ {0} /\ plan.jobs \in Nat /\ plan.folder \subseteq Files
  BY <1>1
<1>3. IsFiniteSet(Folder!Threads) /\ Cardinality(Folder!Threads) = plan.concurrency
  <2>1. plan.concurrency \in Nat /\ plan.concurrency \in Int /\ 1 \in Int
    BY <1>2
  <2>2. Cardinality(1 .. plan.concurrency)
          = IF 1 > plan.concurrency THEN 0 ELSE plan.concurrency - 1 + 1
    BY <2>1, FS_Interval
  <2>3. IsFiniteSet(1 .. plan.concurrency)
    BY <2>1, FS_Interval
  <2> QED
    BY <1>2, <2>2, <2>3 DEF Folder!Threads
<1>4. 1 \in Folder!Threads
  BY <1>2 DEF Folder!Threads
<1>5. IsFiniteSet(Folder!Names)
  <2> DEFINE name == [f \in Files |-> NameOf[f]]
  <2>1. name \in Surjection(Files, Folder!Names)
    BY DEF Surjection, Folder!Names
  <2> QED
    BY <2>1, FS_Surjection, FolderConstants
<1>6. \A s : IsFiniteSet({s})
  BY FS_Singleton
<1>7. IsFiniteSet(Files \X {"folder"}) /\ IsFiniteSet(Folder!Names \X {"quarantine"})
  BY <1>5, <1>6, FS_Product, FolderConstants
<1>8. IsFiniteSet(Folder!Paths)
  BY <1>7, FS_Union DEF Folder!Paths
<1> QED
  BY <1>2, <1>3, <1>4, <1>8 DEF Folder!Jobs

\* Worker w of job j, and no other, is now at step a with path p.
Turns(j, w, a, p) ==
    /\ worker'[j][w].at = a /\ worker'[j][w].path = p
    /\ \A v \in Folder!Threads \ {w} : worker'[j][v] = worker[j][v]
    /\ \A k \in Folder!Jobs \ {j} : worker'[k] = worker[k]

\* What a worker's step does to the workers.
LEMMA AtFacts ==
  ASSUME FolderType, NEW j \in Folder!Jobs, NEW w \in Folder!Threads,
         NEW a \in {"check", "take", "scan", "move", "copy", "remove", "exit"},
         NEW p \in Folder!Paths \cup {<<>>},
         worker' = [worker EXCEPT ![j][w] = [at |-> a, path |-> p]]
  PROVE  worker' \in [Folder!Jobs -> [Folder!Threads -> WorkerSet]] /\ Turns(j, w, a, p)
<1>1. [at |-> a, path |-> p] \in WorkerSet
  BY DEF WorkerSet
<1>2. worker \in [Folder!Jobs -> [Folder!Threads -> WorkerSet]]
  BY DEF FolderType
<1>3. worker' = [worker EXCEPT ![j] = [worker[j] EXCEPT ![w] = [at |-> a, path |-> p]]]
  BY <1>2
<1>4. worker[j] \in [Folder!Threads -> WorkerSet]
  BY <1>2
<1>5. [worker[j] EXCEPT ![w] = [at |-> a, path |-> p]] \in [Folder!Threads -> WorkerSet]
  BY <1>1, <1>4
<1>6. worker'[j] = [worker[j] EXCEPT ![w] = [at |-> a, path |-> p]]
  BY <1>2, <1>3
<1>7. worker'[j][w] = [at |-> a, path |-> p]
  BY <1>4, <1>6
<1> QED
  BY <1>2, <1>3, <1>4, <1>5, <1>6, <1>7 DEF Turns

\* The two forms of a step are such changes.
LEMMA Steps ==
  ASSUME FolderType, NEW j \in Folder!Jobs, NEW w \in Folder!Threads
  PROVE  /\ Folder!Path(j, w) \in Folder!Paths \cup {<<>>}
         /\ \A a : Folder!At(j, w, a) =>
              worker' = [worker EXCEPT ![j][w] = [at |-> a, path |-> Folder!Path(j, w)]]
         /\ Folder!Rest(j, w) => worker' = [worker EXCEPT ![j][w] = [at |-> "check", path |-> <<>>]]
<1>1. worker \in [Folder!Jobs -> [Folder!Threads -> WorkerSet]]
  BY DEF FolderType
<1>2. worker[j][w] \in WorkerSet
  BY <1>1
<1>3. Folder!Path(j, w) \in Folder!Paths \cup {<<>>}
  BY <1>2 DEF Folder!Path, WorkerSet
<1>4. ASSUME NEW a, Folder!At(j, w, a)
      PROVE  worker' = [worker EXCEPT ![j][w] = [at |-> a, path |-> Folder!Path(j, w)]]
  <2>1. [worker[j][w] EXCEPT !.at = a] = [at |-> a, path |-> Folder!Path(j, w)]
    BY <1>2 DEF Folder!Path, WorkerSet
  <2>2. worker' = [worker EXCEPT ![j] = [worker[j] EXCEPT ![w] = [worker[j][w] EXCEPT !.at = a]]]
    BY <1>1, <1>4 DEF Folder!At
  <2> QED
    BY <1>1, <2>1, <2>2
<1> QED
  BY <1>3, <1>4 DEF Folder!Rest, Folder!Resting

LEMMA Starts == Folder!Init => FolderType
<1> SUFFICES ASSUME Folder!Init PROVE FolderType
  OBVIOUS
<1>1. Folder!NewJob \in JobSet
  BY DEF Folder!NewJob, JobSet, States
<1>2. Folder!Resting \in WorkerSet
  BY DEF Folder!Resting, WorkerSet
<1>3. wire \in Seq(Messages)
  BY DEF Folder!Init
<1> QED
  BY <1>1, <1>2, <1>3 DEF Folder!Init, FolderType, Places, Folder!setup

\* What is told is a message.
LEMMA Told ==
  ASSUME FolderType, NEW j \in Folder!Jobs, NEW how, Folder!Tell(j, how)
  PROVE  wire' \in Seq(Messages)
<1>1. \A k \in {"ended", "resolved", "rejected"} : <<[kind |-> k, job |-> j]>> \in Seq(Messages)
  BY DEF Messages
<1>2. <<>> \in Seq(Messages) /\ wire \in Seq(Messages)
  BY DEF FolderType
<1>3. \A a, b, c \in Seq(Messages) : a \o b \o c \in Seq(Messages)
  OBVIOUS
<1>4. CASE app = "tauri"
  <2>1. wire' = wire \o <<[kind |-> "ended", job |-> j]>> \o <<>>
    BY <1>4 DEF Folder!Tell
  <2> QED
    BY <1>1, <1>2, <1>3, <2>1
<1>5. CASE app # "tauri"
  <2> DEFINE k == IF how = "error" THEN "rejected" ELSE "resolved"
  <2>1. wire' = wire \o <<[kind |-> "ended", job |-> j]>> \o <<[kind |-> k, job |-> j]>>
    BY <1>5 DEF Folder!Tell
  <2>2. k \in {"ended", "resolved", "rejected"}
    OBVIOUS
  <2> HIDE DEF k
  <2> QED
    BY <1>1, <1>2, <1>3, <2>1, <2>2
<1> QED
  BY <1>4, <1>5

\* The paths that are found are paths.
LEMMA FoundPaths == ASSUME FolderType PROVE Folder!Found \subseteq Folder!Paths
  BY PlanFacts DEF FolderType, Folder!Found, Folder!Taken, Folder!Paths, Folder!Names

\* What a file's arrival in the quarantine does.
LEMMA ArrivesFacts ==
  ASSUME FolderType, NEW f \in Files, NEW where \in Places, Folder!Arrives(f, where)
  PROVE  /\ place' \in [Files -> Places]
         /\ place'[f] = where
         /\ \A g \in Files : NameOf[g] # NameOf[f] => place'[g] = place[g]
         /\ \A g \in Files \ {f} : NameOf[g] = NameOf[f] =>
              /\ place[g] = "quarantine" => place'[g] = "overwritten"
              /\ place[g] = "both" => place'[g] = "folder"
              /\ place[g] \in {"folder", "overwritten"} => place'[g] = place[g]
<1>1. place \in [Files -> Places]
  BY DEF FolderType
<1>2. \A g \in Files :
        place'[g] = (IF g = f THEN where
                     ELSE IF NameOf[g] # NameOf[f] THEN place[g]
                     ELSE CASE place[g] = "quarantine" -> "overwritten"
                            [] place[g] = "both"       -> "folder"
                            [] OTHER -> place[g])
  BY DEF Folder!Arrives
<1>3. \A g \in Files : place'[g] \in Places
  BY <1>1, <1>2 DEF Places
<1>4. place' = [g \in Files |-> place'[g]]
  BY DEF Folder!Arrives
<1> QED
  BY <1>1, <1>2, <1>3, <1>4 DEF Places

\* A worker on its way has a path; one that moves a file has the path of a file.
PathInv ==
    \A j \in Folder!Jobs, w \in Folder!Threads :
      /\ worker[j][w].at \in {"scan", "move", "copy", "remove"}
           => Folder!Path(j, w) \in Folder!Paths
      /\ worker[j][w].at \in {"copy", "remove"} => Folder!Where(j, w) = "folder"

\* A path in the folder is that of a file.
LEMMA FileOf ==
  ASSUME NEW j \in Folder!Jobs, NEW w \in Folder!Threads, Folder!Path(j, w) \in Folder!Paths,
         Folder!Where(j, w) = "folder"
  PROVE  Folder!File(j, w) \in Files
  BY DEF Folder!Paths, Folder!File, Folder!Where

\* What each step of a worker leaves behind.
LEMMA WorkerStep ==
  ASSUME FolderType, PathInv, NEW j \in Folder!Jobs, NEW w \in Folder!Threads, Folder!Works(j, w)
  PROVE  /\ UNCHANGED <<Folder!setup, wire, answers, Folder!window>>
         /\ place' \in [Files -> Places] /\ reported' \subseteq Files
              /\ spoiled' \subseteq Folder!Names
         /\ mishaps' \in Nat
         /\ \E a \in {"check", "take", "scan", "move", "copy", "remove", "exit"},
               p \in Folder!Paths \cup {<<>>} :
              worker' = [worker EXCEPT ![j][w] = [at |-> a, path |-> p]]
         /\ job' \in [Folder!Jobs -> JobSet] /\ counted' \in [Folder!Jobs -> [Folder!Paths -> Nat]]
         /\ late' \in [Folder!Jobs -> Nat]
<1> USE DEF FolderType
<1> DEFINE ats == {"check", "take", "scan", "move", "copy", "remove", "exit"}
<1> DEFINE Stepped ==
             \E a \in ats, p \in Folder!Paths \cup {<<>>} :
                worker' = [worker EXCEPT ![j][w] = [at |-> a, path |-> p]]
<1>1. ASSUME NEW a \in ats, Folder!At(j, w, a) PROVE Stepped
  <2>1. worker' = [worker EXCEPT ![j][w] = [at |-> a, path |-> Folder!Path(j, w)]]
    BY <1>1, Steps
  <2> QED
    BY <2>1, Steps
<1>2. Folder!Rest(j, w) => Stepped
  BY Steps
<1> HIDE DEF Stepped
<1>3. job[j] \in JobSet /\ late[j] \in Nat
  OBVIOUS
<1>4. Folder!Fail => mishaps' \in Nat
  BY FolderConstants DEF Folder!Fail
<1>5. worker[j][w].at \in {"scan", "move", "copy", "remove"} => Folder!Path(j, w) \in Folder!Paths
  BY DEF PathInv
<1>6. worker[j][w].at \in {"move", "copy", "remove"} /\ Folder!Where(j, w) = "folder"
        => Folder!File(j, w) \in Files /\ NameOf[Folder!File(j, w)] \in Folder!Names
  BY <1>5, FileOf DEF Folder!Names
<1>7. worker[j][w].at \in {"copy", "remove"} => Folder!Where(j, w) = "folder"
  BY DEF PathInv
<1>8. \A f \in Files, where \in Places : Folder!Arrives(f, where) => place' \in [Files -> Places]
  BY ArrivesFacts
<1>9. CASE Folder!Check(j, w)
  <2>1. Stepped
    BY <1>1, <1>9 DEF Folder!Check
  <2> QED
    BY <1>9, <2>1 DEF Folder!Check, Stepped, Folder!disk
<1>10. CASE Folder!Take(j, w)
  <2>1. ASSUME Folder!At(j, w, "exit"), UNCHANGED <<job, late>>
        PROVE  Stepped /\ job' \in [Folder!Jobs -> JobSet] /\ late' \in [Folder!Jobs -> Nat]
    BY <1>1, <2>1
  <2>2. ASSUME NEW p \in job[j].todo,
               job' = [job EXCEPT ![j].todo = @ \ {p}],
               worker' = [worker EXCEPT ![j][w] = [at |-> "scan", path |-> p]],
               late' = [late EXCEPT ![j] = IF job[j].cancel THEN @ + 1 ELSE @]
        PROVE  Stepped /\ job' \in [Folder!Jobs -> JobSet] /\ late' \in [Folder!Jobs -> Nat]
    <3>1. p \in Folder!Paths
      BY <1>3 DEF JobSet
    <3>2. Stepped
      BY <2>2, <3>1 DEF Stepped
    <3>3. [job[j] EXCEPT !.todo = @ \ {p}] \in JobSet
      BY <1>3 DEF JobSet
    <3>4. job' = [job EXCEPT ![j] = [job[j] EXCEPT !.todo = @ \ {p}]]
      BY <2>2
    <3> QED
      BY <1>3, <2>2, <3>2, <3>3, <3>4
  <2>3. UNCHANGED <<Folder!setup, Folder!disk, counted, wire, answers, Folder!window, mishaps>>
    BY <1>10 DEF Folder!Take
  <2>4. Stepped /\ job' \in [Folder!Jobs -> JobSet] /\ late' \in [Folder!Jobs -> Nat]
    BY <1>10, <2>1, <2>2 DEF Folder!Take
  <2> QED
    BY <2>3, <2>4 DEF Stepped, Folder!disk
<1>11. CASE Folder!Scan(j, w)
  <2>1. Folder!Path(j, w) \in Folder!Paths
    BY <1>5, <1>11 DEF Folder!Scan
  <2>2. ASSUME NEW how, Folder!Counted(j, w, how)
        PROVE  job' \in [Folder!Jobs -> JobSet]
               /\ counted' \in [Folder!Jobs -> [Folder!Paths -> Nat]]
    <3>1. job' = [job EXCEPT ![j] = [job[j] EXCEPT !.ok = IF how = "ok" THEN @ + 1 ELSE @,
                                     !.failed = IF how = "ok" THEN @ ELSE @ + 1]]
      BY <2>2 DEF Folder!Counted
    <3>2. [job[j] EXCEPT !.ok = IF how = "ok" THEN @ + 1 ELSE @,
                         !.failed = IF how = "ok" THEN @ ELSE @ + 1] \in JobSet
      <4> DEFINE ok == IF how = "ok" THEN job[j].ok + 1 ELSE job[j].ok
                 failed == IF how = "ok" THEN job[j].failed ELSE job[j].failed + 1
      <4>1. ok \in Nat /\ failed \in Nat
        BY <1>3 DEF JobSet
      <4> HIDE DEF ok, failed
      <4>2. [job[j] EXCEPT !.ok = ok, !.failed = failed] \in JobSet
        BY <1>3, <4>1 DEF JobSet
      <4> QED
        BY <1>3, <4>2 DEF ok, failed, JobSet
    <3>3. counted' = [counted EXCEPT ![j] = [counted[j] EXCEPT ![Folder!Path(j, w)] = @ + 1]]
      BY <2>2 DEF Folder!Counted
    <3>4. counted[j] \in [Folder!Paths -> Nat]
      OBVIOUS
    <3>5. [counted[j] EXCEPT ![Folder!Path(j, w)] = @ + 1] \in [Folder!Paths -> Nat]
      BY <2>1, <3>4
    <3> QED
      BY <3>1, <3>2, <3>3, <3>5
  <2>3. Stepped /\ mishaps' \in Nat
    BY <1>1, <1>2, <1>4, <1>11 DEF Folder!Scan
  <2>4. job' \in [Folder!Jobs -> JobSet] /\ counted' \in [Folder!Jobs -> [Folder!Paths -> Nat]]
    BY <1>11, <2>2 DEF Folder!Scan
  <2> QED
    BY <1>11, <2>3, <2>4 DEF Folder!Scan, Stepped, Folder!disk
<1>12. CASE Folder!Rename(j, w)
  <2>1. Stepped /\ mishaps' \in Nat
    BY <1>1, <1>2, <1>4, <1>12 DEF Folder!Rename, Folder!Moved
  <2>2. place' \in [Files -> Places] /\ reported' \subseteq Files /\ spoiled' \subseteq Folder!Names
    BY <1>6, <1>8, <1>12 DEF Folder!Rename, Folder!Moved, Folder!disk, Places
  <2> QED
    BY <1>12, <2>1, <2>2 DEF Folder!Rename, Stepped
<1>13. CASE Folder!Copy(j, w)
  <2>1. Stepped /\ mishaps' \in Nat
    BY <1>1, <1>2, <1>4, <1>13 DEF Folder!Copy, Folder!CopyFails
  <2>2. place' \in [Files -> Places] /\ reported' \subseteq Files /\ spoiled' \subseteq Folder!Names
    BY <1>6, <1>7, <1>8, <1>13 DEF Folder!Copy, Folder!CopyFails, Folder!disk, Places
  <2> QED
    BY <1>13, <2>1, <2>2 DEF Folder!Copy, Stepped
<1>14. CASE Folder!Remove(j, w)
  <2>1. Stepped /\ mishaps' \in Nat
    BY <1>1, <1>2, <1>4, <1>14 DEF Folder!Remove, Folder!Moved
  <2>2. place' \in [Files -> Places] /\ reported' \subseteq Files /\ spoiled' \subseteq Folder!Names
    BY <1>6, <1>7, <1>14 DEF Folder!Remove, Folder!Moved, Folder!Removed, Folder!disk, Places
  <2> QED
    BY <1>14, <2>1, <2>2 DEF Folder!Remove, Stepped
<1> QED
  BY <1>9, <1>10, <1>11, <1>12, <1>13, <1>14 DEF Folder!Works

\* A change of one job.
LEMMA JobChanged ==
  ASSUME FolderType, NEW j \in Folder!Jobs, NEW r \in JobSet, job' = [job EXCEPT ![j] = r]
  PROVE  /\ job' \in [Folder!Jobs -> JobSet] /\ job'[j] = r
         /\ \A k \in Folder!Jobs \ {j} : job'[k] = job[k]
  BY DEF FolderType

LEMMA TypeStep ==
  ASSUME FolderType, PathInv, [Folder!Next]_(Folder!vars)
  PROVE  FolderType'
<1> USE DEF Folder!window, Folder!backend, Folder!setup, Folder!disk
<1>1. ASSUME UNCHANGED Folder!setup
      PROVE Folder!Jobs' = Folder!Jobs /\ Folder!Threads' = Folder!Threads
  BY <1>1 DEF Folder!Jobs, Folder!Threads
<1>2. ASSUME UNCHANGED <<Folder!setup, Folder!disk, worker, counted, late, mishaps>>,
             job' \in [Folder!Jobs -> JobSet], wire' \in Seq(Messages),
             answers' \subseteq Folder!Jobs,
             active' \in Folder!Jobs \cup {0}
      PROVE  FolderType'
  BY <1>1, <1>2 DEF FolderType, Messages
<1>3. ASSUME NEW j \in Folder!Jobs, NEW r \in JobSet, job' = [job EXCEPT ![j] = r]
      PROVE  job' \in [Folder!Jobs -> JobSet]
  BY <1>3, JobChanged
<1>4. job \in [Folder!Jobs -> JobSet] /\ wire \in Seq(Messages) /\ answers \subseteq Folder!Jobs
      /\ active \in Folder!Jobs \cup {0}
  BY DEF FolderType
<1>5. CASE Folder!Click
  <2>1. PICK j \in Folder!Jobs :
          /\ job' = [job EXCEPT ![j] = [job[j] EXCEPT !.state = "starting"]]
          /\ answers' \in {answers, answers \cup {j}} /\ active' \in {active, j}
    BY <1>5 DEF Folder!Click
  <2>2. [job[j] EXCEPT !.state = "starting"] \in JobSet
    BY <1>4 DEF JobSet, States
  <2>3. job' \in [Folder!Jobs -> JobSet]
    BY <1>3, <2>1, <2>2
  <2> QED
    BY <1>2, <1>4, <1>5, <2>1, <2>3 DEF Folder!Click
<1>6. CASE Folder!Refresh
  BY <1>2, <1>4, <1>6 DEF Folder!Refresh
<1>7. CASE Folder!Stop
  <2>1. active \in Folder!Jobs
    BY <1>4, <1>7 DEF Folder!Stop
  <2>2. [job[active] EXCEPT !.cancel = TRUE] \in JobSet
    BY <1>4, <2>1 DEF JobSet
  <2>3. job' = [job EXCEPT ![active] = [job[active] EXCEPT !.cancel = TRUE]]
    BY <1>7 DEF Folder!Stop
  <2>4. job' \in [Folder!Jobs -> JobSet]
    BY <1>3, <2>1, <2>2, <2>3
  <2> QED
    BY <1>2, <1>4, <1>7, <2>4 DEF Folder!Stop
<1>8. CASE Folder!Message
  <2>1. wire' \in Seq(Messages) /\ Head(wire) \in Messages
    BY <1>4, <1>8 DEF Folder!Message
  <2>2. Head(wire).kind \in {"ended", "resolved", "rejected"}
    BY <2>1 DEF Messages
  <2>3. active' \in {active, 0}
    BY <1>8, <2>2 DEF Folder!Message, Folder!Idle, Folder!Mine
  <2> QED
    BY <1>2, <1>4, <1>8, <2>1, <2>3 DEF Folder!Message
<1>9. ASSUME NEW j \in Folder!Jobs, Folder!Answered(j) PROVE FolderType'
  BY <1>2, <1>4, <1>9 DEF Folder!Answered
<1>10. ASSUME NEW j \in Folder!Jobs, Folder!List(j) PROVE FolderType'
  <2>1. Folder!Found \subseteq Folder!Paths /\ IsFiniteSet(Folder!Found)
    BY FoundPaths, PlanFacts, FS_Subset
  <2>2. Cardinality(Folder!Found) \in Nat
    BY <2>1, FS_CardinalityType
  <2>3. job' = [job EXCEPT ![j] = [job[j] EXCEPT !.state = "scanning", !.todo = Folder!Found,
                                   !.total = Cardinality(Folder!Found)]]
    BY <1>10, FolderNames DEF Folder!List
  <2>4. [job[j] EXCEPT !.state = "scanning", !.todo = Folder!Found,
        !.total = Cardinality(Folder!Found)]
          \in JobSet
    BY <1>4, <2>1, <2>2 DEF JobSet, States
  <2>5. job' \in [Folder!Jobs -> JobSet]
    BY <1>3, <2>3, <2>4
  <2> QED
    BY <1>2, <1>4, <1>10, <2>5 DEF Folder!List
<1>11. ASSUME NEW j \in Folder!Jobs, Folder!Finish(j) PROVE FolderType'
  <2>1. PICK state \in {"canceled", "done"} :
          job' = [job EXCEPT ![j] = [job[j] EXCEPT !.state = state]]
    BY <1>11 DEF Folder!Finish
  <2>2. [job[j] EXCEPT !.state = state] \in JobSet
    BY <1>4 DEF JobSet, States
  <2>3. job' \in [Folder!Jobs -> JobSet]
    BY <1>3, <2>1, <2>2
  <2>4. wire' \in Seq(Messages)
    BY <1>11, Told DEF Folder!Finish
  <2> QED
    BY <1>2, <1>4, <1>11, <2>3, <2>4 DEF Folder!Finish
<1>12. ASSUME NEW j \in Folder!Jobs, Folder!StartFails(j) PROVE FolderType'
  <2>1. job' = [job EXCEPT ![j] = [job[j] EXCEPT !.state = "error"]]
    BY <1>12 DEF Folder!StartFails
  <2>2. [job[j] EXCEPT !.state = "error"] \in JobSet
    BY <1>4 DEF JobSet, States
  <2>3. job' \in [Folder!Jobs -> JobSet]
    BY <1>3, <2>1, <2>2
  <2>4. wire' \in Seq(Messages)
    BY <1>12, Told DEF Folder!StartFails
  <2>5. mishaps' \in Nat
    BY <1>12, FolderConstants DEF Folder!StartFails, Folder!Fail, FolderType
  <2> QED
    BY <1>1, <1>4, <1>12, <2>3, <2>4, <2>5 DEF Folder!StartFails, FolderType, Messages
<1>13. ASSUME NEW j \in Folder!Jobs, NEW w \in Folder!Threads, Folder!Works(j, w)
       PROVE FolderType'
  <2>1. worker' \in [Folder!Jobs -> [Folder!Threads -> WorkerSet]]
    <3>1. PICK a \in {"check", "take", "scan", "move", "copy", "remove", "exit"},
               p \in Folder!Paths \cup {<<>>} :
            worker' = [worker EXCEPT ![j][w] = [at |-> a, path |-> p]]
      BY <1>13, WorkerStep
    <3> QED
      BY <3>1, AtFacts, Zenon
  <2>2. UNCHANGED <<Folder!setup, wire, answers, Folder!window>>
    BY <1>13, WorkerStep
  <2>3. /\ place' \in [Files -> Places] /\ reported' \subseteq Files
             /\ spoiled' \subseteq Folder!Names
        /\ mishaps' \in Nat /\ late' \in [Folder!Jobs -> Nat]
        /\ job' \in [Folder!Jobs -> JobSet] /\ counted' \in [Folder!Jobs -> [Folder!Paths -> Nat]]
    BY <1>13, WorkerStep
  <2> QED
    BY <1>1, <1>4, <2>1, <2>2, <2>3 DEF FolderType, Messages
<1>14. CASE UNCHANGED Folder!vars
  BY <1>2, <1>4, <1>14 DEF Folder!vars
<1> QED
  BY <1>5, <1>6, <1>7, <1>8, <1>9, <1>10, <1>11, <1>12, <1>13, <1>14 DEF Folder!Next,
     Folder!GoesOn

\* A step of a worker leaves the others with their paths.
LEMMA PathStep ==
  ASSUME FolderType, PathInv, [Folder!Next]_(Folder!vars)
  PROVE  PathInv'
<1>1. ASSUME UNCHANGED <<Folder!setup, worker>> PROVE PathInv'
  BY <1>1 DEF PathInv, Folder!Jobs, Folder!Threads, Folder!Path, Folder!Where, Folder!setup
<1>2. ASSUME NEW j \in Folder!Jobs, NEW w \in Folder!Threads, Folder!Works(j, w) PROVE PathInv'
  <2>1. Folder!Jobs' = Folder!Jobs /\ Folder!Threads' = Folder!Threads
    BY <1>2, WorkerStep DEF Folder!Jobs, Folder!Threads, Folder!setup
  <2>2. ASSUME NEW a \in {"check", "take", "scan", "move", "copy", "remove", "exit"},
               NEW p \in Folder!Paths \cup {<<>>},
               worker' = [worker EXCEPT ![j][w] = [at |-> a, path |-> p]],
               a \in {"scan", "move", "copy", "remove"} => p \in Folder!Paths,
               a \in {"copy", "remove"} => p[2] = "folder"
        PROVE  PathInv'
    <3>1. worker' = [worker EXCEPT ![j][w] = [at |-> a, path |-> p]]
      BY <2>2
    <3>2. Turns(j, w, a, p)
      BY <3>1, AtFacts, Zenon
    <3> QED
      BY <2>1, <2>2, <3>2 DEF Turns, PathInv, Folder!Path, Folder!Where
  <2>3. worker[j][w].at \in {"scan", "move", "copy", "remove"} => Folder!Path(j, w) \in Folder!Paths
    BY DEF PathInv
  <2>4. ASSUME Folder!Rest(j, w) PROVE PathInv'
    BY <2>2, <2>4, Steps
  <2>5. ASSUME NEW a \in {"check", "take", "exit"}, Folder!At(j, w, a) PROVE PathInv'
    BY <2>2, <2>5, Steps
  <2>6. ASSUME NEW a \in {"move", "copy", "remove"}, Folder!At(j, w, a),
               Folder!Path(j, w) \in Folder!Paths,
               a \in {"copy", "remove"} => Folder!Where(j, w) = "folder"
        PROVE  PathInv'
    BY <2>2, <2>6, Steps DEF Folder!Where
  <2>7. CASE Folder!Check(j, w)
    BY <2>5, <2>7 DEF Folder!Check
  <2>8. CASE Folder!Take(j, w)
    <3>1. job[j].todo \subseteq Folder!Paths
      BY DEF FolderType, JobSet
    <3> QED
      BY <2>2, <2>5, <2>8, <3>1 DEF Folder!Take
  <2>9. CASE Folder!Scan(j, w)
    BY <2>3, <2>4, <2>6, <2>9 DEF Folder!Scan
  <2>10. CASE Folder!Rename(j, w)
    BY <2>3, <2>4, <2>6, <2>10 DEF Folder!Rename, Folder!Moved
  <2>11. CASE Folder!Copy(j, w)
    <3>1. Folder!Where(j, w) = "folder"
      BY <2>11 DEF Folder!Copy, PathInv
    <3> QED
      BY <2>3, <2>4, <2>6, <2>11, <3>1 DEF Folder!Copy
  <2>12. CASE Folder!Remove(j, w)
    BY <2>4, <2>12 DEF Folder!Remove, Folder!Moved
  <2> QED
    BY <1>2, <2>7, <2>8, <2>9, <2>10, <2>11, <2>12 DEF Folder!Works
<1>3. ASSUME NEW j \in Folder!Jobs,
             Folder!Answered(j) \/ Folder!List(j) \/ Folder!Finish(j) \/ Folder!StartFails(j)
      PROVE  PathInv'
  BY <1>1, <1>3 DEF Folder!Answered, Folder!List, Folder!Finish, Folder!StartFails, Folder!backend
<1>4. CASE Folder!Click \/ Folder!Refresh \/ Folder!Stop \/ Folder!Message \/ UNCHANGED Folder!vars
  BY <1>1, <1>4 DEF Folder!Click, Folder!Refresh, Folder!Stop, Folder!Message, Folder!vars,
     Folder!backend
<1> QED
  BY <1>2, <1>3, <1>4 DEF Folder!Next, Folder!GoesOn
-----------------------------------------------------------------------------
Scanning(j) == {w \in Folder!Threads : worker[j][w].at = "scan"}
Taking(j) == {w \in Folder!Threads : worker[j][w].at = "take"}
CountedPaths(j) == {p \in Folder!Paths : counted[j][p] = 1}

\* A path is waiting, in the hands of one worker, or counted.
CountsOnce(j) ==
    /\ \A p \in Folder!Paths : counted[j][p] <= 1
    /\ \A p \in job[j].todo : counted[j][p] = 0
    /\ \A w \in Scanning(j) : Folder!Path(j, w) \notin job[j].todo
         /\ counted[j][Folder!Path(j, w)] = 0
    /\ \A v, w \in Scanning(j) : Folder!Path(j, v) = Folder!Path(j, w) => v = w

\* The counters are what has been counted, and the total all that was found.
Books(j) ==
    /\ job[j].ok + job[j].failed = Cardinality(CountedPaths(j))
    /\ job[j].total
         = Cardinality(job[j].todo) + Cardinality(Scanning(j)) + job[j].ok + job[j].failed

\* Nothing has been done for the job.
Fresh(j) ==
    /\ job[j].todo = {} /\ job[j].total = 0 /\ job[j].ok = 0 /\ job[j].failed = 0
    /\ \A p \in Folder!Paths : counted[j][p] = 0
    /\ \A w \in Folder!Threads : worker[j][w].at = "check"

\* How a job starts and ends.
Ends(j) ==
    /\ job[j].state \in {"none", "starting", "error"} => Fresh(j)
    /\ \A w \in Folder!Threads : worker[j][w].at = "exit" => job[j].todo = {} \/ job[j].cancel
    /\ job[j].state \in {"done", "canceled"} => Folder!AllDone(j)
    /\ job[j].state = "done" => job[j].ok + job[j].failed = job[j].total
    /\ job[j].state = "canceled" => job[j].cancel

\* After a stop only those workers take a file that had looked at the flag before.
StopsSoon(j) ==
    IF job[j].cancel THEN late[j] + Cardinality(Taking(j)) <= plan.concurrency ELSE late[j] = 0

JobInv == \A j \in Folder!Jobs : CountsOnce(j) /\ Books(j) /\ Ends(j) /\ StopsSoon(j)

LEMMA Adding ==
  ASSUME NEW S, IsFiniteSet(S), NEW x, x \notin S
  PROVE  IsFiniteSet(S \cup {x}) /\ Cardinality(S \cup {x}) = Cardinality(S) + 1
  BY FS_AddElement

LEMMA Removing ==
  ASSUME NEW S, IsFiniteSet(S), NEW x \in S
  PROVE  IsFiniteSet(S \ {x}) /\ Cardinality(S \ {x}) = Cardinality(S) - 1
  BY FS_RemoveElement

\* What is counted is finite.
LEMMA Finite ==
  ASSUME FolderType, NEW j \in Folder!Jobs
  PROVE  /\ IsFiniteSet(job[j].todo) /\ Cardinality(job[j].todo) \in Nat
         /\ IsFiniteSet(Scanning(j)) /\ Cardinality(Scanning(j)) \in Nat
         /\ IsFiniteSet(Taking(j)) /\ Cardinality(Taking(j)) \in Nat
         /\ Cardinality(Taking(j)) <= plan.concurrency
         /\ IsFiniteSet(CountedPaths(j)) /\ Cardinality(CountedPaths(j)) \in Nat
<1>1. job[j].todo \subseteq Folder!Paths
  BY DEF FolderType, JobSet
<1>2. Scanning(j) \subseteq Folder!Threads /\ Taking(j) \subseteq Folder!Threads
      /\ CountedPaths(j) \subseteq Folder!Paths
  BY DEF Scanning, Taking, CountedPaths
<1>3. /\ IsFiniteSet(job[j].todo) /\ IsFiniteSet(Scanning(j)) /\ IsFiniteSet(Taking(j))
      /\ IsFiniteSet(CountedPaths(j))
  BY <1>1, <1>2, PlanFacts, FS_Subset
<1>4. Cardinality(Taking(j)) <= plan.concurrency
  BY <1>2, PlanFacts, FS_Subset
<1> QED
  BY <1>3, <1>4, FS_CardinalityType

\* What a worker's turn does to the sets.
LEMMA TurnSets ==
  ASSUME FolderType, UNCHANGED Folder!setup, NEW j \in Folder!Jobs, NEW w \in Folder!Threads,
         NEW a, NEW p,
         Turns(j, w, a, p)
  PROVE  /\ Scanning(j)' = IF a = "scan" THEN Scanning(j) \cup {w} ELSE Scanning(j) \ {w}
         /\ Taking(j)' = IF a = "take" THEN Taking(j) \cup {w} ELSE Taking(j) \ {w}
         /\ Folder!Path(j, w)' = p
              /\ \A v \in Folder!Threads \ {w} : Folder!Path(j, v)' = Folder!Path(j, v)
         /\ Folder!Threads' = Folder!Threads /\ Folder!Jobs' = Folder!Jobs
<1>1. Folder!Threads' = Folder!Threads /\ Folder!Jobs' = Folder!Jobs
  BY DEF Folder!Threads, Folder!Jobs, Folder!setup
<1>2. \A v \in Folder!Threads : worker'[j][v].at = IF v = w THEN a ELSE worker[j][v].at
  BY DEF Turns
<1>3. Folder!Path(j, w)' = p
      /\ \A v \in Folder!Threads \ {w} : Folder!Path(j, v)' = Folder!Path(j, v)
  BY <1>1 DEF Turns, Folder!Path
<1> QED
  BY <1>1, <1>2, <1>3 DEF Scanning, Taking

\* The other jobs do not change.
LEMMA Untouched ==
  ASSUME JobInv, UNCHANGED Folder!setup, NEW k \in Folder!Jobs,
         job'[k] = job[k], worker'[k] = worker[k], counted'[k] = counted[k], late'[k] = late[k]
  PROVE  (CountsOnce(k) /\ Books(k) /\ Ends(k) /\ StopsSoon(k))'
<1>1. Folder!Threads' = Folder!Threads
  BY DEF Folder!Threads, Folder!setup
<1>2. Scanning(k)' = Scanning(k) /\ Taking(k)' = Taking(k)
  BY <1>1 DEF Scanning, Taking
<1>3. CountedPaths(k)' = CountedPaths(k) /\ \A w : Folder!Path(k, w)' = Folder!Path(k, w)
  BY DEF CountedPaths, Folder!Path
<1>4. CountsOnce(k)' /\ Books(k)'
  BY <1>2, <1>3 DEF JobInv, CountsOnce, Books
<1>5. Ends(k)'
  BY <1>1 DEF JobInv, Ends, Fresh, Folder!AllDone
<1>6. StopsSoon(k)'
  BY <1>2 DEF JobInv, StopsSoon, Folder!setup
<1> QED
  BY <1>4, <1>5, <1>6

LEMMA JobStarts == Folder!Init => JobInv
<1> SUFFICES ASSUME Folder!Init, NEW j \in Folder!Jobs
             PROVE  CountsOnce(j) /\ Books(j) /\ Ends(j) /\ StopsSoon(j)
  BY DEF JobInv
<1>1. /\ job[j] = Folder!NewJob /\ \A w \in Folder!Threads : worker[j][w].at = "check"
      /\ \A p \in Folder!Paths : counted[j][p] = 0
      /\ late[j] = 0
  BY DEF Folder!Init, Folder!Resting
<1>2. Scanning(j) = {} /\ CountedPaths(j) = {}
  BY <1>1 DEF Scanning, CountedPaths
<1> QED
  BY <1>1, <1>2, FS_EmptySet DEF CountsOnce, Books, Ends, StopsSoon, Fresh, Folder!NewJob

\* A worker that has something in hand works on a job that is being scanned.
LEMMA AtWork ==
  ASSUME FolderType, JobInv, NEW j \in Folder!Jobs, NEW w \in Folder!Threads,
         worker[j][w].at \notin {"check", "exit"}
  PROVE  job[j].state = "scanning"
<1>1. job[j].state \in States
  BY DEF FolderType, JobSet
<1>2. Ends(j)
  BY DEF JobInv
<1> QED
  BY <1>1, <1>2 DEF Ends, Fresh, Folder!AllDone, States

\* A step that leaves the counters alone: from the flag to the next file or the end, or from
\* one step of a move to the next.
LEMMA QuietTurn ==
  ASSUME FolderType, JobInv, NEW j \in Folder!Jobs, NEW w \in Folder!Threads, NEW a, NEW p,
         Turns(j, w, a, p), UNCHANGED <<Folder!setup, job, counted, late>>,
         job[j].state = "scanning", worker[j][w].at # "scan", a # "scan",
         a = "exit" => job[j].todo = {} \/ job[j].cancel,
         a = "take" => ~job[j].cancel
  PROVE  CountsOnce(j)' /\ Books(j)' /\ Ends(j)' /\ StopsSoon(j)'
<1>1. /\ Scanning(j)' = Scanning(j)
      /\ Taking(j)' = IF a = "take" THEN Taking(j) \cup {w} ELSE Taking(j) \ {w}
      /\ Folder!Path(j, w)' = p
           /\ \A v \in Folder!Threads \ {w} : Folder!Path(j, v)' = Folder!Path(j, v)
      /\ Folder!Threads' = Folder!Threads
  BY TurnSets DEF Scanning
<1>2. CountedPaths(j)' = CountedPaths(j) /\ w \notin Scanning(j)
      /\ Scanning(j) \subseteq Folder!Threads
  BY DEF CountedPaths, Scanning
<1>3. CountsOnce(j) /\ Books(j) /\ Ends(j) /\ StopsSoon(j)
  BY DEF JobInv
<1>4. CountsOnce(j)'
  BY <1>1, <1>2, <1>3 DEF CountsOnce
<1>5. Books(j)'
  BY <1>1, <1>2, <1>3 DEF Books
<1>6. Ends(j)'
  BY <1>1, <1>3 DEF Ends, Turns
<1>7. StopsSoon(j)'
  <2>1. CASE job[j].cancel
    <3>1. Taking(j)' \subseteq Taking(j)
      BY <1>1, <2>1
    <3>2. Cardinality(Taking(j)') <= Cardinality(Taking(j)) /\ Cardinality(Taking(j)') \in Nat
      BY <3>1, Finite, FS_Subset, FS_CardinalityType
    <3>3. plan.concurrency \in Nat /\ late[j] \in Nat
      BY PlanFacts DEF FolderType
    <3> QED
      BY <1>3, <2>1, <3>2, <3>3, Finite DEF StopsSoon, Folder!setup
  <2>2. CASE ~job[j].cancel
    BY <1>3, <2>2 DEF StopsSoon
  <2> QED
    BY <2>1, <2>2
<1> QED
  BY <1>4, <1>5, <1>6, <1>7

\* A file is taken.
LEMMA TakenTurn ==
  ASSUME FolderType, JobInv, NEW j \in Folder!Jobs, NEW w \in Folder!Threads, NEW p \in job[j].todo,
         Turns(j, w, "scan", p), UNCHANGED <<Folder!setup, counted>>, worker[j][w].at = "take",
         job' = [job EXCEPT ![j].todo = @ \ {p}],
         late' = [late EXCEPT ![j] = IF job[j].cancel THEN @ + 1 ELSE @]
  PROVE  CountsOnce(j)' /\ Books(j)' /\ Ends(j)' /\ StopsSoon(j)'
<1>1. /\ Scanning(j)' = Scanning(j) \cup {w} /\ Taking(j)' = Taking(j) \ {w}
      /\ Folder!Path(j, w)' = p
           /\ \A v \in Folder!Threads \ {w} : Folder!Path(j, v)' = Folder!Path(j, v)
      /\ Folder!Threads' = Folder!Threads
  BY TurnSets
<1>2. /\ CountedPaths(j)' = CountedPaths(j)
      /\ w \notin Scanning(j) /\ w \in Taking(j) /\ Scanning(j) \subseteq Folder!Threads
  BY DEF CountedPaths, Scanning, Taking
<1>3. CountsOnce(j) /\ Books(j) /\ Ends(j) /\ StopsSoon(j)
  BY DEF JobInv
<1>4. job[j].state = "scanning"
  BY AtWork
<1>5. job'[j] = [job[j] EXCEPT !.todo = job[j].todo \ {p}] /\ job[j] \in JobSet
  BY DEF FolderType
<1>6. /\ job'[j].todo = job[j].todo \ {p} /\ job'[j].state = "scanning"
      /\ job'[j].ok = job[j].ok /\ job'[j].failed = job[j].failed
      /\ job'[j].total = job[j].total /\ job'[j].cancel = job[j].cancel
      /\ job[j].ok \in Nat /\ job[j].failed \in Nat /\ job[j].total \in Nat
  BY <1>4, <1>5 DEF JobSet
<1>7. CountsOnce(j)'
  BY <1>1, <1>2, <1>3, <1>6 DEF CountsOnce
<1>8. Books(j)'
  <2>1. Cardinality(Scanning(j)') = Cardinality(Scanning(j)) + 1
    BY <1>1, <1>2, Adding, Finite
  <2>2. Cardinality(job'[j].todo) = Cardinality(job[j].todo) - 1
    BY <1>6, Removing, Finite
  <2> QED
    BY <1>2, <1>3, <1>6, <2>1, <2>2, Finite DEF Books
<1>9. Ends(j)'
  BY <1>1, <1>3, <1>6 DEF Ends, Turns
<1>10. StopsSoon(j)'
  <2>1. Cardinality(Taking(j)') = Cardinality(Taking(j)) - 1
    BY <1>1, <1>2, Removing, Finite
  <2>2. late'[j] = IF job[j].cancel THEN late[j] + 1 ELSE late[j]
    BY DEF FolderType
  <2>3. plan.concurrency \in Nat /\ late[j] \in Nat
    BY PlanFacts DEF FolderType
  <2> QED
    BY <1>3, <1>6, <2>1, <2>2, <2>3, Finite DEF StopsSoon, Folder!setup
<1> QED
  BY <1>7, <1>8, <1>9, <1>10

\* A path is counted.
LEMMA CountedTurn ==
  ASSUME FolderType, PathInv, JobInv, NEW j \in Folder!Jobs, NEW w \in Folder!Threads, NEW how,
         NEW a \in {"move", "check"}, NEW p,
         Turns(j, w, a, p), UNCHANGED <<Folder!setup, late>>, worker[j][w].at = "scan",
         Folder!Counted(j, w, how)
  PROVE  CountsOnce(j)' /\ Books(j)' /\ Ends(j)' /\ StopsSoon(j)'
<1>1. /\ Scanning(j)' = Scanning(j) \ {w} /\ Taking(j)' = Taking(j) \ {w}
      /\ Folder!Path(j, w)' = p
           /\ \A v \in Folder!Threads \ {w} : Folder!Path(j, v)' = Folder!Path(j, v)
      /\ Folder!Threads' = Folder!Threads
  BY TurnSets
<1>2. w \in Scanning(j) /\ w \notin Taking(j) /\ Scanning(j) \subseteq Folder!Threads
      /\ Folder!Path(j, w) \in Folder!Paths
  BY DEF Scanning, Taking, PathInv
<1>3. CountsOnce(j) /\ Books(j) /\ Ends(j) /\ StopsSoon(j)
  BY DEF JobInv
<1>4. job[j].state = "scanning"
  BY AtWork
<1>5. /\ job'[j] = [job[j] EXCEPT !.ok = IF how = "ok" THEN @ + 1 ELSE @,
                                  !.failed = IF how = "ok" THEN @ ELSE @ + 1]
      /\ job[j] \in JobSet
  BY DEF FolderType, Folder!Counted
<1>6. /\ job'[j].todo = job[j].todo /\ job'[j].state = "scanning"
      /\ job'[j].ok = IF how = "ok" THEN job[j].ok + 1 ELSE job[j].ok
      /\ job'[j].failed = IF how = "ok" THEN job[j].failed ELSE job[j].failed + 1
      /\ job'[j].total = job[j].total /\ job'[j].cancel = job[j].cancel
      /\ job[j].ok \in Nat /\ job[j].failed \in Nat /\ job[j].total \in Nat
  BY <1>4, <1>5 DEF JobSet
<1>7. \A q \in Folder!Paths :
        counted'[j][q] = IF q = Folder!Path(j, w) THEN counted[j][q] + 1 ELSE counted[j][q]
  <2>1. counted[j] \in [Folder!Paths -> Nat]
    BY DEF FolderType
  <2>2. counted'[j] = [counted[j] EXCEPT ![Folder!Path(j, w)] = @ + 1]
    BY DEF FolderType, Folder!Counted
  <2> QED
    BY <2>1, <2>2
<1>8. job[j].todo \subseteq Folder!Paths
      /\ \A v \in Scanning(j) : Folder!Path(j, v) \in Folder!Paths
  BY DEF FolderType, JobSet, PathInv, Scanning
<1>9. counted[j][Folder!Path(j, w)] = 0
  BY <1>2, <1>3 DEF CountsOnce
<1>10. CountsOnce(j)'
  <2>1. \A q \in Folder!Paths : counted'[j][q] <= 1
    BY <1>3, <1>7, <1>9 DEF CountsOnce
  <2>2. \A q \in job'[j].todo : counted'[j][q] = 0
    BY <1>2, <1>3, <1>6, <1>7, <1>8 DEF CountsOnce
  <2>3. ASSUME NEW v \in Scanning(j)'
        PROVE  Folder!Path(j, v)' = Folder!Path(j, v) /\ v \in Scanning(j)
               /\ Folder!Path(j, v) # Folder!Path(j, w)
    BY <1>1, <1>2, <1>3, <2>3 DEF CountsOnce
  <2>4. \A v \in Scanning(j)' : Folder!Path(j, v)' \notin job'[j].todo
        /\ counted'[j][Folder!Path(j, v)'] = 0
    BY <1>3, <1>6, <1>7, <1>8, <2>3 DEF CountsOnce
  <2>5. \A u, v \in Scanning(j)' : Folder!Path(j, u)' = Folder!Path(j, v)' => u = v
    BY <1>3, <2>3 DEF CountsOnce
  <2> QED
    BY <2>1, <2>2, <2>4, <2>5 DEF CountsOnce
<1>11. Books(j)'
  <2>1. Cardinality(Scanning(j)') = Cardinality(Scanning(j)) - 1
    BY <1>1, <1>2, Removing, Finite
  <2>2. CountedPaths(j)' = CountedPaths(j) \cup {Folder!Path(j, w)}
    BY <1>2, <1>7, <1>9 DEF CountedPaths
  <2>3. Folder!Path(j, w) \notin CountedPaths(j)
    BY <1>9 DEF CountedPaths
  <2>4. Cardinality(CountedPaths(j)') = Cardinality(CountedPaths(j)) + 1
    BY <2>2, <2>3, Adding, Finite
  <2>5. job'[j].ok + job'[j].failed = job[j].ok + job[j].failed + 1
    BY <1>6
  <2> QED
    BY <1>3, <1>6, <2>1, <2>4, <2>5, Finite DEF Books
<1>12. Ends(j)'
  BY <1>1, <1>3, <1>6 DEF Ends, Turns
<1>13. StopsSoon(j)'
  BY <1>1, <1>2, <1>3, <1>6 DEF StopsSoon, Folder!setup
<1> QED
  BY <1>10, <1>11, <1>12, <1>13

\* The turns of a worker keep the books of its job.
LEMMA WorksKeepsBooks ==
  ASSUME FolderType, PathInv, JobInv, NEW j \in Folder!Jobs, NEW w \in Folder!Threads,
         Folder!Works(j, w)
  PROVE  JobInv'
<1>1. UNCHANGED Folder!setup /\ Folder!Jobs' = Folder!Jobs
  BY WorkerStep DEF Folder!Jobs, Folder!setup
<1>2. /\ \A k \in Folder!Jobs \ {j} : worker'[k] = worker[k]
      /\ \A a, p : worker' = [worker EXCEPT ![j][w] = [at |-> a, path |-> p]]
           /\ a \in {"check", "take", "scan", "move", "copy", "remove", "exit"}
           /\ p \in Folder!Paths \cup {<<>>} => Turns(j, w, a, p)
  <2>1. ASSUME NEW a \in {"check", "take", "scan", "move", "copy", "remove", "exit"},
               NEW p \in Folder!Paths \cup {<<>>},
               worker' = [worker EXCEPT ![j][w] = [at |-> a, path |-> p]]
        PROVE  Turns(j, w, a, p)
    BY <2>1, AtFacts, Zenon
  <2>2. PICK a \in {"check", "take", "scan", "move", "copy", "remove", "exit"},
             p \in Folder!Paths \cup {<<>>} :
          worker' = [worker EXCEPT ![j][w] = [at |-> a, path |-> p]]
    BY WorkerStep
  <2>3. Turns(j, w, a, p)
    BY <2>1, <2>2
  <2> QED
    BY <2>1, <2>3 DEF Turns
<1>3. \A k \in Folder!Jobs \ {j} : job'[k] = job[k] /\ counted'[k] = counted[k]
      /\ late'[k] = late[k]
  BY DEF Folder!Works, Folder!Check, Folder!Take, Folder!Scan, Folder!Counted, Folder!Rename,
     Folder!Copy, Folder!Remove, FolderType, Folder!backend
<1>4. ASSUME CountsOnce(j)' /\ Books(j)' /\ Ends(j)' /\ StopsSoon(j)' PROVE JobInv'
  BY <1>1, <1>2, <1>3, <1>4, Untouched DEF JobInv
<1>5. Folder!Path(j, w) \in Folder!Paths \cup {<<>>}
  BY Steps
<1>6. ASSUME NEW a \in {"check", "take", "move", "copy", "remove", "exit"}, Folder!At(j, w, a)
      PROVE  Turns(j, w, a, Folder!Path(j, w))
  BY <1>2, <1>5, <1>6, Steps
<1>7. ASSUME Folder!Rest(j, w) PROVE Turns(j, w, "check", <<>>)
  BY <1>2, <1>7, Steps
<1>8. CASE Folder!Check(j, w)
  <2>1. PICK a \in {"take", "exit"} :
          /\ Folder!At(j, w, a)
          /\ a = "take" => ~job[j].cancel
          /\ a = "exit" => job[j].cancel
    BY <1>8 DEF Folder!Check
  <2>2. Turns(j, w, a, Folder!Path(j, w))
    BY <1>6, <2>1
  <2>3. UNCHANGED <<job, counted, late>> /\ job[j].state = "scanning"
        /\ worker[j][w].at # "scan"
    BY <1>8 DEF Folder!Check
  <2> QED
    BY <1>1, <1>4, <2>1, <2>2, <2>3, QuietTurn
<1>9. CASE Folder!Take(j, w)
  <2>1. CASE job[j].todo = {} /\ Folder!At(j, w, "exit") /\ UNCHANGED <<job, late>>
    <3>1. Turns(j, w, "exit", Folder!Path(j, w))
      BY <1>6, <2>1
    <3>2. UNCHANGED <<job, counted, late>> /\ job[j].state = "scanning"
          /\ worker[j][w].at # "scan"
      BY <1>9, <2>1, AtWork DEF Folder!Take
    <3> QED
      BY <1>1, <1>4, <2>1, <3>1, <3>2, QuietTurn
  <2>2. ASSUME NEW p \in job[j].todo,
               job' = [job EXCEPT ![j].todo = @ \ {p}],
               worker' = [worker EXCEPT ![j][w] = [at |-> "scan", path |-> p]],
               late' = [late EXCEPT ![j] = IF job[j].cancel THEN @ + 1 ELSE @]
        PROVE  JobInv'
    <3>1. p \in Folder!Paths
      BY DEF FolderType, JobSet
    <3>2. Turns(j, w, "scan", p)
      BY <1>2, <2>2, <3>1
    <3>3. UNCHANGED counted /\ worker[j][w].at = "take"
      BY <1>9 DEF Folder!Take
    <3> QED
      BY <1>1, <1>4, <2>2, <3>2, <3>3, TakenTurn
  <2> QED
    BY <1>9, <2>1, <2>2 DEF Folder!Take
<1>10. CASE Folder!Scan(j, w)
  <2>1. PICK how \in {"ok", "failed"} : Folder!Counted(j, w, how)
    BY <1>10 DEF Folder!Scan
  <2>2. UNCHANGED late /\ worker[j][w].at = "scan"
    BY <1>10 DEF Folder!Scan
  <2>3. CASE Folder!At(j, w, "move")
    <3>1. Turns(j, w, "move", Folder!Path(j, w))
      BY <1>6, <2>3
    <3> QED
      BY <1>1, <1>4, <2>1, <2>2, <3>1, CountedTurn
  <2>4. CASE Folder!Rest(j, w)
    BY <1>1, <1>4, <1>7, <2>1, <2>2, <2>4, CountedTurn
  <2> QED
    BY <1>10, <2>3, <2>4 DEF Folder!Scan
<1>11. ASSUME worker[j][w].at \in {"move", "copy", "remove"},
              UNCHANGED <<job, counted, late>>,
              Folder!Rest(j, w) \/ Folder!At(j, w, "copy") \/ Folder!At(j, w, "remove")
       PROVE  JobInv'
  <2>1. job[j].state = "scanning"
    BY <1>11, AtWork
  <2>2. ASSUME NEW a \in {"check", "copy", "remove"}, NEW p, Turns(j, w, a, p)
        PROVE  JobInv'
    BY <1>1, <1>4, <1>11, <2>1, <2>2, QuietTurn
  <2> QED
    BY <1>6, <1>7, <1>11, <2>2
<1>12. CASE Folder!Rename(j, w)
  BY <1>11, <1>12 DEF Folder!Rename, Folder!Moved
<1>13. CASE Folder!Copy(j, w)
  BY <1>11, <1>13 DEF Folder!Copy
<1>14. CASE Folder!Remove(j, w)
  BY <1>11, <1>14 DEF Folder!Remove, Folder!Moved
<1> QED
  BY <1>8, <1>9, <1>10, <1>12, <1>13, <1>14 DEF Folder!Works

\* Job j, and no other, is now in this state.
Enters(j, state) == job' = [job EXCEPT ![j] = [job[j] EXCEPT !.state = state]]

LEMMA JobStep ==
  ASSUME FolderType, PathInv, JobInv, [Folder!Next]_(Folder!vars)
  PROVE  JobInv'
<1> USE DEF Folder!window, Folder!backend, Folder!setup
<1>1. ASSUME UNCHANGED <<Folder!setup, job, worker, counted, late>> PROVE JobInv'
  <2>1. Folder!Jobs' = Folder!Jobs
    BY <1>1 DEF Folder!Jobs
  <2> QED
    BY <1>1, <2>1, Untouched DEF JobInv
<1>2. ASSUME NEW j \in Folder!Jobs, \A k \in Folder!Jobs \ {j} : job'[k] = job[k],
             UNCHANGED <<Folder!setup, worker, counted, late>>,
             CountsOnce(j)' /\ Books(j)' /\ Ends(j)' /\ StopsSoon(j)'
      PROVE  JobInv'
  <2>1. Folder!Jobs' = Folder!Jobs
    BY <1>2 DEF Folder!Jobs
  <2> QED
    BY <1>2, <2>1, Untouched DEF JobInv
<1>3. ASSUME NEW j \in Folder!Jobs, UNCHANGED <<Folder!setup, worker, counted, late>>
      PROVE  /\ Folder!Threads' = Folder!Threads
             /\ Scanning(j)' = Scanning(j) /\ Taking(j)' = Taking(j)
             /\ CountedPaths(j)' = CountedPaths(j) /\ \A w : Folder!Path(j, w)' = Folder!Path(j, w)
  BY <1>3 DEF Folder!Threads, Scanning, Taking, CountedPaths, Folder!Path
\* Only the state of a job changes.
<1>4. ASSUME NEW j \in Folder!Jobs, NEW state, Enters(j, state),
             UNCHANGED <<Folder!setup, worker, counted, late>>,
             state \in {"starting", "error"} => Fresh(j),
             state \in {"done", "canceled"} => Folder!AllDone(j),
             state = "done" => job[j].ok + job[j].failed = job[j].total,
             state = "canceled" => job[j].cancel,
             state \in {"starting", "error", "done", "canceled"}
      PROVE  JobInv'
  <2>1. /\ job'[j] = [job[j] EXCEPT !.state = state] /\ job[j] \in JobSet
        /\ \A k \in Folder!Jobs \ {j} : job'[k] = job[k]
    BY <1>4 DEF FolderType, Enters
  <2>2. /\ job'[j].state = state /\ job'[j].todo = job[j].todo /\ job'[j].total = job[j].total
        /\ job'[j].ok = job[j].ok /\ job'[j].failed = job[j].failed
        /\ job'[j].cancel = job[j].cancel
    BY <2>1 DEF JobSet
  <2>3. CountsOnce(j) /\ Books(j) /\ Ends(j) /\ StopsSoon(j)
    BY DEF JobInv
  <2>4. CountsOnce(j)' /\ Books(j)'
    BY <1>3, <1>4, <2>2, <2>3 DEF CountsOnce, Books
  <2>5. Ends(j)'
    BY <1>3, <1>4, <2>2, <2>3 DEF Ends, Fresh, Folder!AllDone
  <2>6. StopsSoon(j)'
    BY <1>3, <1>4, <2>2, <2>3 DEF StopsSoon
  <2> QED
    BY <1>2, <1>4, <2>1, <2>4, <2>5, <2>6
<1>5. CASE Folder!Click
  <2>1. PICK j \in Folder!Jobs :
          job[j].state = "none" /\ Enters(j, "starting")
    BY <1>5 DEF Folder!Click, Enters
  <2>2. Fresh(j)
    BY <2>1 DEF JobInv, Ends
  <2>3. UNCHANGED <<Folder!setup, worker, counted, late>>
    BY <1>5 DEF Folder!Click
  <2> QED
    BY <1>4, <2>1, <2>2, <2>3
<1>6. CASE Folder!Refresh \/ Folder!Message \/ UNCHANGED Folder!vars
  BY <1>1, <1>6 DEF Folder!Refresh, Folder!Message, Folder!vars
<1>7. ASSUME NEW j \in Folder!Jobs, Folder!Answered(j) PROVE JobInv'
  BY <1>1, <1>7 DEF Folder!Answered
<1>8. CASE Folder!Stop
  <2>1. PICK j \in Folder!Jobs : j = active
    BY <1>8 DEF Folder!Stop, FolderType
  <2>2. job' = [job EXCEPT ![j] = [job[j] EXCEPT !.cancel = TRUE]]
        /\ UNCHANGED <<Folder!setup, worker, counted, late>>
    BY <1>8, <2>1 DEF Folder!Stop
  <2>3. /\ job'[j] = [job[j] EXCEPT !.cancel = TRUE] /\ job[j] \in JobSet
        /\ \A k \in Folder!Jobs \ {j} : job'[k] = job[k]
    BY <2>1, <2>2 DEF FolderType
  <2>4. /\ job'[j].state = job[j].state /\ job'[j].todo = job[j].todo
        /\ job'[j].total = job[j].total /\ job'[j].ok = job[j].ok
        /\ job'[j].failed = job[j].failed /\ job'[j].cancel = TRUE
    BY <2>3 DEF JobSet
  <2>5. CountsOnce(j) /\ Books(j) /\ Ends(j) /\ StopsSoon(j)
    BY <2>1 DEF JobInv
  <2>6. CountsOnce(j)' /\ Books(j)'
    BY <1>3, <2>2, <2>4, <2>5 DEF CountsOnce, Books
  <2>7. Ends(j)'
    BY <1>3, <2>2, <2>4, <2>5 DEF Ends, Fresh, Folder!AllDone
  <2>8. StopsSoon(j)'
    <3>1. plan.concurrency \in Nat
      BY PlanFacts
    <3> QED
      BY <1>3, <2>2, <2>4, <2>5, <3>1, Finite DEF StopsSoon
  <2> QED
    BY <1>2, <2>2, <2>3, <2>6, <2>7, <2>8
<1>9. ASSUME NEW j \in Folder!Jobs, Folder!List(j) PROVE JobInv'
  <2>1. job' = [job EXCEPT ![j] = [job[j] EXCEPT !.state = "scanning", !.todo = Folder!Found,
                                   !.total = Cardinality(Folder!Found)]]
        /\ UNCHANGED <<Folder!setup, worker, counted, late>>
    BY <1>9, FolderNames DEF Folder!List
  <2>2. job'[j] = [job[j] EXCEPT !.state = "scanning", !.todo = Folder!Found,
                                 !.total = Cardinality(Folder!Found)] /\ job[j] \in JobSet
        /\ \A k \in Folder!Jobs \ {j} : job'[k] = job[k]
    BY <2>1 DEF FolderType
  <2>3. /\ job'[j].state = "scanning" /\ job'[j].todo = Folder!Found
        /\ job'[j].total = Cardinality(Folder!Found) /\ job'[j].ok = job[j].ok
        /\ job'[j].failed = job[j].failed /\ job'[j].cancel = job[j].cancel
    BY <2>2 DEF JobSet
  <2>4. CountsOnce(j) /\ Books(j) /\ Ends(j) /\ StopsSoon(j) /\ Fresh(j)
    BY <1>9 DEF JobInv, Ends, Folder!List
  <2>5. Scanning(j) = {} /\ CountedPaths(j) = {}
    BY <2>4 DEF Scanning, CountedPaths, Fresh
  <2>6. CountsOnce(j)'
    BY <1>3, <2>1, <2>3, <2>4, <2>5, FoundPaths DEF CountsOnce, Fresh
  <2>7. Books(j)'
    <3>1. Cardinality(Folder!Found) \in Nat
      BY FoundPaths, PlanFacts, FS_Subset, FS_CardinalityType
    <3>2. job'[j].todo = Folder!Found /\ job'[j].total = Cardinality(Folder!Found)
          /\ job'[j].ok = 0 /\ job'[j].failed = 0
      BY <2>3, <2>4 DEF Fresh
    <3>3. Scanning(j)' = {} /\ CountedPaths(j)' = {} /\ Cardinality({}) = 0
      BY <1>3, <2>1, <2>5, FS_EmptySet
    <3> QED
      BY <3>1, <3>2, <3>3 DEF Books
  <2>8. Ends(j)'
    BY <1>3, <2>1, <2>3, <2>4 DEF Ends, Fresh
  <2>9. StopsSoon(j)'
    BY <1>3, <2>1, <2>3, <2>4 DEF StopsSoon
  <2> QED
    BY <1>2, <2>1, <2>2, <2>6, <2>7, <2>8, <2>9
<1>10. ASSUME NEW j \in Folder!Jobs, Folder!Finish(j) PROVE JobInv'
  <2> DEFINE canceled == job[j].cancel /\ job[j].ok + job[j].failed < job[j].total
             state == IF canceled THEN "canceled" ELSE "done"
  <2>1. Enters(j, state) /\ UNCHANGED <<Folder!setup, worker, counted, late>> /\ Folder!AllDone(j)
    BY <1>10 DEF Folder!Finish, Enters
  <2>2. /\ job[j].ok \in Nat /\ job[j].failed \in Nat /\ job[j].total \in Nat
        /\ job[j].cancel \in BOOLEAN
    BY DEF FolderType, JobSet
  <2>3. Books(j) /\ Ends(j)
    BY DEF JobInv
  <2>4. Scanning(j) = {} /\ Cardinality(Scanning(j)) = 0
    BY <2>1, FS_EmptySet DEF Folder!AllDone, Scanning
  <2>5. ~canceled => job[j].ok + job[j].failed = job[j].total
    <3>1. CASE ~job[j].cancel
      <4>1. job[j].todo = {}
        BY <2>1, <2>3, <3>1, PlanFacts DEF Folder!AllDone, Ends
      <4> QED
        BY <2>2, <2>3, <2>4, <4>1, FS_EmptySet DEF Books
    <3>2. CASE job[j].cancel
      BY <2>2, <2>3, <2>4, <3>2, Finite DEF Books
    <3> QED
      BY <3>1, <3>2
  <2>6. CASE canceled
    <3>1. Enters(j, "canceled") /\ job[j].cancel
      BY <2>1, <2>6
    <3> QED
      BY <1>4, <2>1, <3>1
  <2>7. CASE ~canceled
    <3>1. Enters(j, "done")
      BY <2>1, <2>7
    <3> HIDE DEF canceled, state
    <3> QED
      BY <1>4, <2>1, <2>5, <2>7, <3>1
  <2> QED
    BY <2>6, <2>7
<1>11. ASSUME NEW j \in Folder!Jobs, Folder!StartFails(j) PROVE JobInv'
  <2>1. Enters(j, "error") /\ UNCHANGED <<Folder!setup, worker, counted, late>>
    BY <1>11 DEF Folder!StartFails, Enters
  <2>2. Fresh(j)
    BY <1>11 DEF JobInv, Ends, Folder!StartFails
  <2> QED
    BY <1>4, <2>1, <2>2
<1> QED
  BY <1>5, <1>6, <1>7, <1>8, <1>9, <1>10, <1>11, WorksKeepsBooks DEF Folder!Next, Folder!GoesOn
-----------------------------------------------------------------------------
\* Something has taken the place of f in the quarantine, or broken off over it.
Replaced(f) ==
    \/ NameOf[f] \in spoiled
    \/ \E g \in Files \ {f} : NameOf[g] = NameOf[f] /\ place[g] \in {"both", "quarantine"}

\* The copy of a file whose original is about to be removed may have been replaced.
RemovesSafely ==
    \A j \in Folder!Jobs, w \in Folder!Threads :
      worker[j][w].at = "remove" /\ place[Folder!File(j, w)] = "folder"
      => Replaced(Folder!File(j, w))

MoveInv == Folder!QuarantineKeeps /\ RemovesSafely

\* What a step may do to the disk: what has been replaced stays so, unless it arrives anew;
\* what leaves the quarantine has been replaced; what is reported has left the folder.
DiskKept ==
    /\ \A g \in Files : Replaced(g) => Replaced(g)' \/ place'[g] \in {"quarantine", "both"}
    /\ \A g \in Files :
         place'[g] \in {"folder", "overwritten"} /\ place'[g] # place[g] => Replaced(g)'
    /\ \A g \in reported' : place'[g] \in {"quarantine", "overwritten"}

LEMMA SameDisk ==
  ASSUME FolderType, MoveInv, UNCHANGED Folder!disk
  PROVE  DiskKept
  BY DEF DiskKept, Folder!disk, Replaced, MoveInv, Folder!QuarantineKeeps, FolderType

LEMMA ArrivalKept ==
  ASSUME FolderType, MoveInv, NEW f \in Files, NEW where \in {"quarantine", "both", "folder"},
         Folder!Arrives(f, where), place[f] \in {"folder", "both"},
         spoiled' = IF where = "folder" THEN spoiled \cup {NameOf[f]} ELSE spoiled,
         reported' = IF where = "quarantine" THEN reported \cup {f} ELSE reported
  PROVE  DiskKept
<1>1. /\ place' \in [Files -> Places] /\ place \in [Files -> Places]
      /\ place'[f] = where
      /\ \A g \in Files : NameOf[g] # NameOf[f] => place'[g] = place[g]
      /\ \A g \in Files \ {f} : NameOf[g] = NameOf[f] =>
           /\ place[g] = "quarantine" => place'[g] = "overwritten"
           /\ place[g] = "both" => place'[g] = "folder"
           /\ place[g] \in {"folder", "overwritten"} => place'[g] = place[g]
  BY ArrivesFacts DEF FolderType, Places
<1>2. ASSUME NEW g \in Files, NameOf[g] # NameOf[f], Replaced(g) PROVE Replaced(g)'
  BY <1>1, <1>2 DEF Replaced
<1>3. ASSUME NEW g \in Files \ {f}, NameOf[g] = NameOf[f] PROVE Replaced(g)'
  BY <1>1, <1>3 DEF Replaced
<1>4. Replaced(f)' \/ place'[f] \in {"quarantine", "both"}
  BY <1>1 DEF Replaced
<1>5. \A g \in Files : Replaced(g) => Replaced(g)' \/ place'[g] \in {"quarantine", "both"}
  BY <1>2, <1>3, <1>4
<1>6. \A g \in Files :
        place'[g] \in {"folder", "overwritten"} /\ place'[g] # place[g] => Replaced(g)'
  BY <1>1, <1>3, <1>4
<1>7. ASSUME NEW g \in reported' PROVE place'[g] \in {"quarantine", "overwritten"}
  <2>1. \A h \in reported : h \in Files /\ place[h] \in {"quarantine", "overwritten"}
    BY DEF MoveInv, Folder!QuarantineKeeps, FolderType
  <2> QED
    BY <1>1, <1>7, <2>1
<1> QED
  BY <1>5, <1>6, <1>7 DEF DiskKept

LEMMA RemovalKept ==
  ASSUME FolderType, MoveInv, NEW f \in Files, Folder!Removed(f), place[f] \in {"folder", "both"},
         place[f] = "folder" => Replaced(f),
         spoiled' = spoiled, reported' = reported \cup {f}
  PROVE  DiskKept
<1>1. /\ place \in [Files -> Places]
      /\ \A g \in Files : place'[g] = IF g # f THEN place[g]
                                      ELSE IF place[f] = "both" THEN "quarantine" ELSE "overwritten"
  BY DEF FolderType, Folder!Removed
<1>2. ASSUME NEW g \in Files, Replaced(g) PROVE Replaced(g)'
  BY <1>1, <1>2 DEF Replaced
<1>3. \A g \in Files :
        place'[g] \in {"folder", "overwritten"} /\ place'[g] # place[g] => Replaced(g)'
  BY <1>1, <1>2
<1>4. \A g \in reported' : place'[g] \in {"quarantine", "overwritten"}
  BY <1>1 DEF MoveInv, Folder!QuarantineKeeps, FolderType
<1> QED
  BY <1>2, <1>3, <1>4 DEF DiskKept

\* A turn of a worker keeps the disk; it is about to remove only what it has copied.
LEMMA WorksKeepsDisk ==
  ASSUME FolderType, PathInv, MoveInv, NEW j \in Folder!Jobs, NEW w \in Folder!Threads,
         Folder!Works(j, w)
  PROVE  /\ DiskKept
         /\ worker'[j][w].at = "remove" =>
              Folder!Path(j, w)' = Folder!Path(j, w) /\ place'[Folder!File(j, w)] = "both"
<1>1. /\ Folder!Path(j, w) \in Folder!Paths \cup {<<>>}
      /\ \A a \in {"check", "take", "move", "copy", "remove", "exit"} :
           Folder!At(j, w, a) => worker'[j][w].at = a /\ Folder!Path(j, w)' = Folder!Path(j, w)
      /\ Folder!Rest(j, w) => worker'[j][w].at = "check"
  <2>1. ASSUME NEW a \in {"check", "take", "move", "copy", "remove", "exit"}, Folder!At(j, w, a)
        PROVE  worker'[j][w].at = a /\ Folder!Path(j, w)' = Folder!Path(j, w)
    <3>1. worker' = [worker EXCEPT ![j][w] = [at |-> a, path |-> Folder!Path(j, w)]]
          /\ Folder!Path(j, w) \in Folder!Paths \cup {<<>>}
          /\ a \in {"check", "take", "scan", "move", "copy", "remove", "exit"}
      BY <2>1, Steps
    <3>2. Turns(j, w, a, Folder!Path(j, w))
      BY <3>1, AtFacts, Zenon
    <3> QED
      BY <3>2 DEF Turns, Folder!Path
  <2>2. ASSUME Folder!Rest(j, w) PROVE worker'[j][w].at = "check"
    <3>1. Turns(j, w, "check", <<>>)
      BY <2>2, Steps, AtFacts
    <3> QED
      BY <3>1 DEF Turns
  <2> QED
    BY <2>1, <2>2, Steps
<1>2. worker[j][w].at \in {"move", "copy", "remove"} /\ Folder!Where(j, w) = "folder"
        => Folder!File(j, w) \in Files
  BY FileOf DEF PathInv
<1>3. CASE Folder!Check(j, w)
  BY <1>1, <1>3, SameDisk DEF Folder!Check
<1>4. CASE Folder!Take(j, w)
  <2>1. worker'[j][w].at \in {"exit", "scan"}
    <3>1. ASSUME NEW p \in job[j].todo,
                 worker' = [worker EXCEPT ![j][w] = [at |-> "scan", path |-> p]]
          PROVE  worker'[j][w].at = "scan"
      <4>1. p \in Folder!Paths
        BY DEF FolderType, JobSet
      <4>2. Turns(j, w, "scan", p)
        BY <3>1, <4>1, AtFacts
      <4> QED
        BY <4>2 DEF Turns
    <3> QED
      BY <1>1, <1>4, <3>1 DEF Folder!Take
  <2> QED
    BY <1>4, <2>1, SameDisk DEF Folder!Take
<1>5. CASE Folder!Scan(j, w)
  BY <1>1, <1>5, SameDisk DEF Folder!Scan
<1>6. CASE Folder!Rename(j, w)
  <2>1. worker'[j][w].at # "remove"
    BY <1>1, <1>6 DEF Folder!Rename, Folder!Moved
  <2>2. CASE UNCHANGED Folder!disk
    BY <2>1, <2>2, SameDisk
  <2>3. CASE /\ Folder!Where(j, w) = "folder" /\ Folder!There(j, w)
             /\ Folder!Arrives(Folder!File(j, w), "quarantine") /\ Folder!Moved(j, w)
                  /\ UNCHANGED spoiled
    <3>1. Folder!File(j, w) \in Files /\ place[Folder!File(j, w)] \in {"folder", "both"}
      BY <1>2, <1>6, <2>3 DEF Folder!Rename, Folder!There
    <3>2. DiskKept
      BY <2>3, <3>1, ArrivalKept DEF Folder!Moved
    <3> QED
      BY <2>1, <3>2
  <2> QED
    BY <1>6, <2>2, <2>3 DEF Folder!Rename
<1>7. CASE Folder!Copy(j, w)
  <2>1. Folder!Where(j, w) = "folder" /\ Folder!File(j, w) \in Files
    BY <1>2, <1>7 DEF Folder!Copy, PathInv
  <2>2. CASE /\ Folder!There(j, w) /\ Folder!Arrives(Folder!File(j, w), "both")
             /\ Folder!At(j, w, "remove") /\ UNCHANGED <<reported, spoiled>>
    <3>1. place[Folder!File(j, w)] \in {"folder", "both"}
      BY <2>1, <2>2 DEF Folder!There
    <3>2. DiskKept
      BY <2>1, <2>2, <3>1, ArrivalKept
    <3>3. place'[Folder!File(j, w)] = "both"
      BY <2>1, <2>2, ArrivesFacts DEF Places
    <3> QED
      BY <1>1, <2>2, <3>2, <3>3
  <2>3. CASE Folder!CopyFails(j, w) /\ Folder!Rest(j, w)
    <3>1. CASE UNCHANGED Folder!disk
      BY <1>1, <2>3, <3>1, SameDisk
    <3>2. CASE /\ Folder!There(j, w) /\ Folder!Arrives(Folder!File(j, w), "folder")
               /\ spoiled' = spoiled \cup {NameOf[Folder!File(j, w)]} /\ UNCHANGED reported
      <4>1. place[Folder!File(j, w)] \in {"folder", "both"}
        BY <2>1, <3>2 DEF Folder!There
      <4>2. DiskKept
        BY <2>1, <3>2, <4>1, ArrivalKept
      <4> QED
        BY <1>1, <2>3, <4>2
    <3> QED
      BY <2>3, <3>1, <3>2 DEF Folder!CopyFails
  <2> QED
    BY <1>7, <2>2, <2>3 DEF Folder!Copy
<1>8. CASE Folder!Remove(j, w)
  <2>1. Folder!Where(j, w) = "folder" /\ Folder!File(j, w) \in Files
    BY <1>2, <1>8 DEF Folder!Remove, PathInv
  <2>2. worker'[j][w].at # "remove"
    BY <1>1, <1>8 DEF Folder!Remove, Folder!Moved
  <2>3. CASE UNCHANGED Folder!disk
    BY <2>2, <2>3, SameDisk
  <2>4. CASE Folder!There(j, w) /\ Folder!Moved(j, w) /\ Folder!Removed(Folder!File(j, w))
             /\ UNCHANGED spoiled
    <3>1. place[Folder!File(j, w)] \in {"folder", "both"}
      BY <2>1, <2>4 DEF Folder!There
    <3>2. place[Folder!File(j, w)] = "folder" => Replaced(Folder!File(j, w))
      BY <1>8 DEF Folder!Remove, MoveInv, RemovesSafely
    <3>3. DiskKept
      BY <2>1, <2>4, <3>1, <3>2, RemovalKept DEF Folder!Moved
    <3> QED
      BY <2>2, <3>3
  <2> QED
    BY <1>8, <2>3, <2>4 DEF Folder!Remove
<1> QED
  BY <1>3, <1>4, <1>5, <1>6, <1>7, <1>8 DEF Folder!Works

LEMMA MoveStep ==
  ASSUME FolderType, PathInv, MoveInv, [Folder!Next]_(Folder!vars)
  PROVE  MoveInv'
<1>1. ASSUME UNCHANGED <<Folder!setup, Folder!disk, worker>> PROVE MoveInv'
  BY <1>1 DEF MoveInv, Folder!QuarantineKeeps, RemovesSafely, Replaced, Folder!Jobs,
     Folder!Threads, Folder!File, Folder!Path, Folder!setup, Folder!disk
<1>2. ASSUME NEW j \in Folder!Jobs, NEW w \in Folder!Threads, Folder!Works(j, w) PROVE MoveInv'
  <2>1. Folder!Jobs' = Folder!Jobs /\ Folder!Threads' = Folder!Threads
    BY <1>2, WorkerStep DEF Folder!Jobs, Folder!Threads, Folder!setup
  <2>2. /\ DiskKept
        /\ worker'[j][w].at = "remove" => Folder!Path(j, w)' = Folder!Path(j, w)
             /\ place'[Folder!File(j, w)] = "both"
    BY <1>2, WorksKeepsDisk
  <2>3. place \in [Files -> Places] /\ place' \in [Files -> Places]
    BY <1>2, WorkerStep DEF FolderType
  <2>4. Folder!QuarantineKeeps'
    <3>1. ASSUME NEW f \in Files, place'[f] = "overwritten" PROVE Replaced(f)'
      <4>1. place[f] = "overwritten" => Replaced(f)
        BY DEF MoveInv, Folder!QuarantineKeeps, Replaced
      <4> QED
        BY <2>2, <3>1, <4>1 DEF DiskKept
    <3> QED
      BY <2>2, <3>1 DEF Folder!QuarantineKeeps, Replaced, DiskKept
  <2>5. RemovesSafely'
    <3> SUFFICES ASSUME NEW k \in Folder!Jobs, NEW v \in Folder!Threads,
                        worker'[k][v].at = "remove",
                        place'[Folder!File(k, v)'] = "folder"
                 PROVE  Replaced(Folder!File(k, v))'
      BY <2>1 DEF RemovesSafely
    <3>1. CASE k = j /\ v = w
      <4>1. Folder!File(k, v)' = Folder!File(j, w)
        BY <2>2, <3>1 DEF Folder!File
      <4> QED
        BY <2>2, <3>1, <4>1
    <3>2. CASE ~(k = j /\ v = w)
      <4>1. PICK a \in {"check", "take", "scan", "move", "copy", "remove", "exit"},
                 p \in Folder!Paths \cup {<<>>} :
              worker' = [worker EXCEPT ![j][w] = [at |-> a, path |-> p]]
        BY <1>2, WorkerStep
      <4>2. Turns(j, w, a, p)
        BY <4>1, AtFacts
      <4>3. worker'[k][v] = worker[k][v]
        BY <3>2, <4>2 DEF Turns
      <4>4. worker[k][v].at = "remove" /\ Folder!File(k, v)' = Folder!File(k, v)
        BY <4>3 DEF Folder!File, Folder!Path
      <4>5. Folder!File(k, v) \in Files
        BY <4>4, FileOf DEF PathInv
      <4>6. place[Folder!File(k, v)] = "folder" => Replaced(Folder!File(k, v))
        BY <4>4 DEF MoveInv, RemovesSafely
      <4>7. \A f \in Files : place'[f] = "folder" /\ (place[f] = "folder" => Replaced(f))
                               => Replaced(f)'
        BY <2>2 DEF DiskKept
      <4> QED
        BY <4>4, <4>5, <4>6, <4>7 DEF Replaced
    <3> QED
      BY <3>1, <3>2
  <2> QED
    BY <2>4, <2>5 DEF MoveInv
<1>3. ASSUME NEW j \in Folder!Jobs,
             Folder!Answered(j) \/ Folder!List(j) \/ Folder!Finish(j) \/ Folder!StartFails(j)
      PROVE  MoveInv'
  BY <1>1, <1>3 DEF Folder!Answered, Folder!List, Folder!Finish, Folder!StartFails, Folder!backend
<1>4. CASE Folder!Click \/ Folder!Refresh \/ Folder!Stop \/ Folder!Message \/ UNCHANGED Folder!vars
  BY <1>1, <1>4 DEF Folder!Click, Folder!Refresh, Folder!Stop, Folder!Message, Folder!vars,
     Folder!backend
<1> QED
  BY <1>2, <1>3, <1>4 DEF Folder!Next, Folder!GoesOn

-----------------------------------------------------------------------------
FolderInv == FolderType /\ PathInv /\ JobInv /\ MoveInv

LEMMA FolderInvariance == Folder!Spec => []FolderInv
<1>1. Folder!Init => FolderInv
  <2>1. Folder!Init => PathInv /\ MoveInv
    BY DEF Folder!Init, PathInv, MoveInv, Folder!QuarantineKeeps, RemovesSafely, Folder!Resting
  <2> QED
    BY <2>1, Starts, JobStarts DEF FolderInv
<1>2. FolderInv /\ [Folder!Next]_(Folder!vars) => FolderInv'
  BY TypeStep, PathStep, JobStep, MoveStep DEF FolderInv
<1> QED
  BY <1>1, <1>2, PTL DEF Folder!Spec

\* The summary of a folder scan is true, for any number of files, workers, jobs and failures.
THEOREM SummariesHold ==
  Folder!Spec => []SummaryTrue
<1>1. FolderInv => SummaryTrue
  <2> SUFFICES ASSUME FolderInv, NEW j \in Folder!Jobs
               PROVE  /\ \A p \in Folder!Paths : counted[j][p] <= 1
                      /\ job[j].state = "done" => job[j].ok + job[j].failed = job[j].total
                      /\ job[j].state \in {"done", "canceled"} =>
                           job[j].ok + job[j].failed
                             = Cardinality({p \in Folder!Paths : counted[j][p] = 1})
                      /\ job[j].state = "canceled" => job[j].cancel
                      /\ late[j] <= Cardinality(Folder!Threads)
    BY FolderNames DEF SummaryTrue, Folder!SummaryTrue
  <2>1. CountsOnce(j) /\ Books(j) /\ Ends(j) /\ StopsSoon(j) /\ FolderType
    BY DEF FolderInv, JobInv
  <2>2. late[j] <= Cardinality(Folder!Threads)
    <3>1. late[j] \in Nat
      BY <2>1 DEF FolderType
    <3> QED
      BY <2>1, <3>1, PlanFacts, Finite DEF StopsSoon
  <2> QED
    BY <2>1, <2>2 DEF CountsOnce, Books, Ends, CountedPaths
<1> QED
  BY <1>1, FolderInvariance, PTL

\* Moving malicious files loses none of them, for any names, jobs and failures.
THEOREM FilesStay ==
  Folder!Spec => []QuarantineKeeps
<1>1. FolderInv => QuarantineKeeps
  BY DEF QuarantineKeeps, FolderInv, MoveInv
<1> QED
  BY <1>1, FolderInvariance, PTL
=============================================================================
