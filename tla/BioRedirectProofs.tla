------------------------- MODULE BioRedirectProofs -------------------------
(***************************************************************************)
(* Proofs about redirect_bio and lo_end_bio, for every size of block,      *)
(* every map of the backing file and every shape of the guest's bio.       *)
(***************************************************************************)
EXTENDS BioRedirect, TLAPS, FiniteSetTheorems, SequenceTheorems

-----------------------------------------------------------------------------
(* The chain of host bios.                                                  *)

Bio == [sector : Nat, size : Nat, mid : BOOLEAN,
        st : {"none", "new", "sent", "counted", "last", "done"}]

Places  == 1 .. Len(list)
Counted == {j \in Places : list[j].st \in {"counted", "last", "done"}}

ChainType == list \in Seq(Bio) /\ new_bio \in Bio

\* Before the first submit_bio, and for ever if it never comes to that.
Unsent ==
    /\ \A j \in Places : list[j].st = "new"
    /\ nr_done = 0 /\ lock = 0 /\ freed = {}

\* What the submit loop has reached is on its way or back.
SentInv ==
    /\ pc \in {"submit", "next"} => cur \in Places
    /\ pc = "next" => cur # Len(list)
    /\ pc = "over" /\ cur # 0 => cur \in Places /\ cur = Len(list)
    /\ cur # 0 => \A j \in Places :
          list[j].st = "new" <=> j > cur \/ (j = cur /\ pc = "submit")
    /\ \A j \in Places : list[j].st # "none"

\* lo_end_bio counts under head_lock, and one bio finds itself the last.
EndInv ==
    /\ nr_done = Cardinality(Counted)
    /\ \A j \in Places : list[j].st = "counted" <=> lock = j
    /\ lock # 0 => lock \in Places
    /\ ended = 0 => /\ freed = {}
                    /\ \A j \in Places : list[j].st # "last"
                    /\ \E j \in Places : list[j].st # "done"
                    /\ error = failed
    /\ ended # 0 => /\ ended = 1 /\ result = failed
                    /\ \A j \in Places : list[j].st \in {"last", "done"}
                    /\ \/ /\ freed = {"list"}
                          /\ \E j \in Places : /\ list[j].st = "last"
                                               /\ \A i \in Places \ {j} : list[i].st = "done"
                       \/ /\ freed = {"list", "head"}
                          /\ \A j \in Places : list[j].st = "done"

HeadType ==
    /\ cur \in Nat /\ nr_done \in Nat /\ ended \in Nat /\ lock \in Nat
    /\ pc \in {"block", "page", "submit", "next", "over"}
    /\ error \in BOOLEAN /\ result \in BOOLEAN /\ failed \in BOOLEAN

ChainInv ==
    /\ HeadType
    /\ pc \in {"block", "page"} => cur = 0 /\ ended = 0 /\ ~failed /\ ~error /\ Unsent
    /\ pc = "over" /\ cur = 0 => ended = 1 /\ result = failed /\ Unsent
    /\ SentInv
    /\ cur # 0 => EndInv

-----------------------------------------------------------------------------
LEMMA ChainShape ==
    ASSUME ChainType
    PROVE  /\ Len(list) \in Nat /\ DOMAIN list = Places
           /\ \A j \in Places : list[j] \in Bio
BY DEF ChainType, Places

\* A bio is appended.
LEMMA Chained ==
    ASSUME ChainType, list' = Append(list, new_bio)
    PROVE  /\ list' \in Seq(Bio) /\ Len(list') = Len(list) + 1
           /\ \A j \in Places : list'[j] = list[j]
           /\ list'[Len(list) + 1] = new_bio
           /\ Places' = Places \cup {Len(list) + 1}
<1>1. list \in Seq(Bio) /\ new_bio \in Bio /\ Len(list) \in Nat
  BY DEF ChainType
<1>2. /\ list' \in Seq(Bio) /\ Len(list') = Len(list) + 1
      /\ \A j \in 1 .. Len(list) : list'[j] = list[j]
      /\ list'[Len(list) + 1] = new_bio
  BY <1>1, AppendProperties
<1>3. 1 .. Len(list) + 1 = (1 .. Len(list)) \cup {Len(list) + 1}
  BY <1>1
<1> QED
  BY <1>2, <1>3 DEF Places

\* The state of one bio of the chain changes, and nothing else of it.
LEMMA Marked ==
    ASSUME ChainType, NEW j \in Places,
           NEW x \in {"none", "new", "sent", "counted", "last", "done"},
           list' = [list EXCEPT ![j].st = x]
    PROVE  /\ list' \in Seq(Bio) /\ Len(list') = Len(list) /\ Places' = Places
           /\ list'[j].st = x /\ list'[j].mid = list[j].mid
           /\ \A i \in Places \ {j} : list'[i] = list[i]
<1> DEFINE b == [list[j] EXCEPT !.st = x]
<1>1. list[j] \in Bio
  BY ChainShape
<1>2. b \in Bio /\ b.st = x /\ b.mid = list[j].mid
  BY <1>1 DEF Bio
<1>3. list' = [list EXCEPT ![j] = b]
  OBVIOUS
<1> HIDE DEF b
<1>4. list' \in Seq(Bio) /\ Len(list') = Len(list)
  BY <1>2, <1>3 DEF ChainType, Places
<1>5. list'[j] = b /\ \A i \in Places \ {j} : list'[i] = list[i]
  BY <1>3, ChainShape
<1> QED
  BY <1>2, <1>4, <1>5 DEF Places

LEMMA CountedFinite ==
    ASSUME ChainType
    PROVE  /\ IsFiniteSet(Counted) /\ Cardinality(Counted) \in Nat
           /\ IsFiniteSet(Places) /\ Cardinality(Places) = Len(list)
           /\ Cardinality(Counted) = Len(list) => Counted = Places
<1>1. Len(list) \in Nat
  BY ChainShape
<1>2. IsFiniteSet(Places) /\ Cardinality(Places) = Len(list)
  <2>1. 1 \in Int /\ Len(list) \in Int
    BY <1>1
  <2>2. /\ IsFiniteSet(1 .. Len(list))
        /\ Cardinality(1 .. Len(list)) = IF 1 > Len(list) THEN 0 ELSE Len(list) - 1 + 1
    BY <2>1, FS_Interval
  <2> QED
    BY <1>1, <2>2 DEF Places
<1>3. Counted \subseteq Places
  BY DEF Counted
<1>4. IsFiniteSet(Counted) /\ Cardinality(Counted) \in Nat
  BY <1>2, <1>3, FS_Subset, FS_CardinalityType
<1>5. Cardinality(Counted) = Cardinality(Places) => Counted = Places
  BY <1>2, <1>3, FS_Subset
<1> QED
  BY <1>2, <1>4, <1>5

-----------------------------------------------------------------------------
(* Steps of the task.                                                       *)

\* A bio that is being filled is new.
NewInv ==
    /\ pc = "page" => count # 0
    /\ pc \in {"block", "page"} /\ count # 0 => new_bio.st = "new"

Grows == list' = list \/ (list' = Append(list, new_bio) /\ new_bio.st = "new")

LEMMA GrownNew ==
    ASSUME ChainType, Unsent, Grows, UNCHANGED <<nr_done, lock, freed>>
    PROVE  Unsent'
<1>1. CASE list' = list
  BY <1>1 DEF Unsent, Places
<1>2. CASE list' = Append(list, new_bio) /\ new_bio.st = "new"
  BY Zenon, <1>2, Chained DEF Unsent
<1> QED
  BY <1>1, <1>2 DEF Grows

LEMMA ChainBuild ==
    ASSUME ChainType, ChainInv, pc \in {"block", "page"}, pc' \in {"block", "page"}, Grows,
           UNCHANGED <<cur, headVars, endVars, failed>>
    PROVE  ChainInv'
<1>1. Unsent'
  BY GrownNew DEF ChainInv, headVars
<1>2. SentInv'
  BY <1>1 DEF SentInv, ChainInv, Unsent
<1> QED
  BY <1>1, <1>2 DEF ChainInv, HeadType, headVars, endVars

LEMMA ChainGiveUp ==
    ASSUME ChainType, ChainInv, pc \in {"block", "page"}, pc' = "over", Grows,
           EndOrig(failed'), failed' \in BOOLEAN, UNCHANGED <<cur, headVars>>
    PROVE  ChainInv'
<1>1. Unsent'
  BY GrownNew DEF ChainInv, headVars
<1>2. SentInv'
  BY <1>1 DEF SentInv, ChainInv, Unsent
<1> QED
  BY <1>1, <1>2 DEF ChainInv, HeadType, headVars, EndOrig

LEMMA ChainLast ==
    ASSUME ChainType, NewInv, ChainInv, LastBlock, count \in Nat
    PROVE  ChainInv'
<1>1. CASE count = 0
  <2>1. /\ pc = "block" /\ pc' = "over" /\ ended' = ended + 1 /\ result' = FALSE
        /\ list' = list /\ failed' = failed /\ UNCHANGED <<cur, headVars>>
    BY <1>1 DEF LastBlock, EndOrig, headVars
  <2>2. failed' = FALSE
    BY <2>1 DEF ChainInv, HeadType
  <2> QED
    BY Zenon, <2>1, <2>2, ChainGiveUp DEF Grows, EndOrig
<1>2. CASE count > 0
  <2>1. /\ pc = "block" /\ pc' = "submit" /\ cur' = 1 /\ new_bio.st = "new"
        /\ list' = Append(list, new_bio)
        /\ UNCHANGED <<headVars, endVars, failed>>
    <3>1. count # 0
      BY <1>2
    <3> QED
      BY Zenon, <3>1 DEF LastBlock, NewInv
  <2>2. Unsent' /\ 1 \in Places'
    <3>1. Unsent'
      BY <2>1, GrownNew DEF ChainInv, Grows, headVars
    <3>2. Len(list') \in Nat /\ Len(list') >= 1
      BY <2>1, Chained, ChainShape
    <3> QED
      BY <3>1, <3>2 DEF Places
  <2>3. Counted' = {}
    BY <2>2 DEF Counted, Unsent
  <2>4. Cardinality(Counted') = 0
    BY <2>3, FS_EmptySet
  <2>5. EndInv'
    <3>1. nr_done' = Cardinality(Counted') /\ lock' = 0 /\ ended' = 0 /\ freed' = {}
      BY <2>1, <2>2, <2>4 DEF ChainInv, Unsent, endVars
    <3>2. \A j \in Places' : list'[j].st = "new" /\ j # 0
      BY <2>2 DEF Unsent, Places
    <3>3. error' = failed'
      BY <2>1 DEF ChainInv, HeadType, headVars
    <3> QED
      BY <2>2, <3>1, <3>2, <3>3 DEF EndInv
  <2>6. SentInv'
    BY <2>1, <2>2 DEF SentInv, Unsent, Places
  <2> QED
    BY <2>1, <2>2, <2>5, <2>6 DEF ChainInv, HeadType, headVars, endVars
<1> QED
  BY <1>1, <1>2

\* Marks that do not touch what lo_end_bio has counted.
LEMMA CountStays ==
    ASSUME ChainType, NEW j \in Places, Places' = Places,
           \A i \in Places \ {j} : list'[i] = list[i],
           list'[j].st \in {"counted", "last", "done"} <=>
              list[j].st \in {"counted", "last", "done"}
    PROVE  Counted' = Counted
BY Zenon DEF Counted

LEMMA ChainSubmit ==
    ASSUME ChainType, ChainInv, SubmitBio
    PROVE  ChainInv'
<1>1. /\ pc = "submit" /\ cur \in Places /\ cur # 0 /\ list[cur].st = "new"
      /\ UNCHANGED <<cur, headVars, endVars, failed>>
  BY DEF SubmitBio, ChainInv, SentInv, Places
<1>2. /\ Len(list') = Len(list) /\ Places' = Places
      /\ list'[cur].st = "sent" /\ \A i \in Places \ {cur} : list'[i] = list[i]
  BY Zenon, <1>1, Marked DEF SubmitBio
<1>3. Counted' = Counted
  BY <1>1, <1>2, CountStays
<1>4. ended = 0 /\ lock # cur
  BY <1>1 DEF ChainInv, EndInv
<1>5. EndInv'
  <2>1. nr_done' = Cardinality(Counted')
    BY <1>1, <1>3 DEF ChainInv, EndInv, headVars
  <2>2. \A i \in Places' : list'[i].st = "counted" <=> lock' = i
    BY <1>1, <1>2, <1>4 DEF ChainInv, EndInv, headVars
  <2>3. lock' # 0 => lock' \in Places'
    BY <1>1, <1>2 DEF ChainInv, EndInv, headVars
  <2>4. /\ freed' = {} /\ \A i \in Places' : list'[i].st # "last"
        /\ \E i \in Places' : list'[i].st # "done"
    BY <1>1, <1>2, <1>4 DEF ChainInv, EndInv, headVars
  <2>5. error' = failed' /\ ended' = 0
    BY <1>1, <1>4 DEF ChainInv, EndInv, headVars, endVars
  <2> QED
    BY <2>1, <2>2, <2>3, <2>4, <2>5 DEF EndInv
<1>6. pc' = IF cur = Len(list) THEN "over" ELSE "next"
  BY DEF SubmitBio
<1>7. SentInv'
  <2>1. cur \in Nat /\ Len(list) \in Nat
    BY <1>1, ChainShape DEF Places
  <2>2. \A i \in Places : list'[i].st = "new" <=> i > cur
    BY <1>1, <1>2, <2>1 DEF ChainInv, SentInv, Places
  <2>3. \A i \in Places : list'[i].st # "none"
    BY <1>1, <1>2 DEF ChainInv, SentInv
  <2> QED
    BY <1>1, <1>2, <1>6, <2>2, <2>3 DEF SentInv
<1> QED
  BY <1>1, <1>5, <1>6, <1>7 DEF ChainInv, HeadType, headVars, endVars

LEMMA ChainNext ==
    ASSUME ChainType, ChainInv, NextBio
    PROVE  ChainInv'
<1>1. /\ pc = "next" /\ cur \in Places /\ cur # 0 /\ cur' = cur + 1 /\ pc' = "submit"
      /\ cur # Len(list) /\ UNCHANGED <<list, headVars, endVars, failed>>
  BY DEF NextBio, ChainInv, SentInv, Places
<1>2. /\ cur \in Nat /\ Len(list) \in Nat
      /\ cur' \in Places /\ Places' = Places /\ cur' # 0
  <2>1. Len(list) \in Nat
    BY ChainShape
  <2> QED
    BY <1>1, <2>1 DEF Places
<1>3. \A j \in Places : j > cur <=> j > cur + 1 \/ j = cur + 1
  BY <1>2 DEF Places
<1>4. SentInv'
  BY <1>1, <1>2, <1>3 DEF SentInv, ChainInv
<1>5. Counted' = Counted
  BY <1>1, <1>2 DEF Counted
<1>6. EndInv'
  BY <1>1, <1>2, <1>5 DEF EndInv, ChainInv, headVars, endVars
<1> QED
  BY <1>1, <1>2, <1>4, <1>6 DEF ChainInv, HeadType, headVars, endVars

-----------------------------------------------------------------------------
(* Steps of lo_end_bio.                                                     *)

\* Completions run for bios that have been submitted.
LEMMA Underway ==
    ASSUME ChainType, ChainInv, NEW j \in Places, list[j].st # "new"
    PROVE  /\ cur # 0 /\ EndInv /\ SentInv
           /\ pc \in {"submit", "next", "over"}
<1>1. cur # 0
  <2>1. pc \in {"submit", "next"} => cur # 0
    BY DEF ChainInv, SentInv, Places
  <2> QED
    BY <2>1 DEF ChainInv, HeadType, Unsent
<1> QED
  BY <1>1 DEF ChainInv, HeadType

LEMMA SentStays ==
    ASSUME SentInv, cur # 0, pc \in {"submit", "next", "over"}, NEW j \in Places,
           list[j].st # "new", list'[j].st \notin {"new", "none"},
           \A i \in Places \ {j} : list'[i] = list[i],
           Places' = Places, Len(list') = Len(list), UNCHANGED <<pc, cur>>
    PROVE  SentInv'
<1>1. \A i \in Places : list'[i].st = "new" <=> list[i].st = "new"
  OBVIOUS
<1>2. \A i \in Places : list'[i].st # "none"
  BY DEF SentInv
<1> QED
  BY <1>1, <1>2 DEF SentInv

LEMMA ChainCount ==
    ASSUME ChainType, ChainInv, NEW j \in Places, NEW err \in BOOLEAN, EndCount(j, err)
    PROVE  ChainInv'
<1>1. /\ list[j].st = "sent" /\ lock = 0 /\ lock' = j /\ nr_done' = nr_done + 1
      /\ error' = (error \/ err) /\ failed' = (failed \/ err)
      /\ UNCHANGED <<pc, cur, freed, ended, result>>
  BY DEF EndCount, endVars
<1>2. /\ Len(list') = Len(list) /\ Places' = Places
      /\ list'[j].st = "counted" /\ \A i \in Places \ {j} : list'[i] = list[i]
  BY Zenon, Marked DEF EndCount
<1>3. cur # 0 /\ EndInv /\ SentInv /\ pc \in {"submit", "next", "over"}
  BY <1>1, Underway
<1>4. SentInv'
  BY <1>1, <1>2, <1>3, SentStays
<1>5. ended = 0
  BY <1>1, <1>3 DEF EndInv
<1>6. nr_done' = Cardinality(Counted')
  <2>1. Counted' = Counted \cup {j} /\ j \notin Counted
    BY <1>1, <1>2 DEF Counted
  <2> QED
    BY Zenon, <1>1, <1>3, <2>1, CountedFinite, FS_AddElement DEF EndInv
<1>7. \A i \in Places : list[i].st # "counted"
  BY <1>1, <1>3 DEF EndInv, Places
<1>8. EndInv'
  <2>1. \A i \in Places' : list'[i].st = "counted" <=> lock' = i
    BY <1>1, <1>2, <1>7
  <2>2. \A i \in Places' : list'[i].st # "last"
    BY <1>2, <1>3, <1>5 DEF EndInv
  <2>3. freed' = {} /\ error' = failed' /\ ended' = 0
    BY <1>1, <1>3, <1>5 DEF EndInv
  <2>4. j \in Places' /\ list'[j].st # "done" /\ lock' \in Places'
    BY <1>1, <1>2
  <2> QED
    BY <1>6, <2>1, <2>2, <2>3, <2>4 DEF EndInv
<1>9. HeadType'
  BY <1>1 DEF ChainInv, HeadType, Places
<1> QED
  BY <1>1, <1>3, <1>4, <1>8, <1>9 DEF ChainInv

\* The bio that finds nr_done at nr_total is the only one not yet through.
LEMMA ChainTest ==
    ASSUME ChainType, ChainInv, NEW j \in Places, EndTest(j)
    PROVE  ChainInv'
<1>1. /\ list[j].st = "counted" /\ lock' = 0
      /\ UNCHANGED <<pc, cur, nr_done, error, failed>>
  BY DEF EndTest
<1>2. cur # 0 /\ EndInv /\ SentInv /\ pc \in {"submit", "next", "over"} /\ j # 0
  BY <1>1, Underway DEF Places
<1>3. /\ ended = 0 /\ lock = j /\ freed = {} /\ error = failed
      /\ \A i \in Places \ {j} : list[i].st \notin {"counted", "last"}
  BY <1>1, <1>2 DEF EndInv
<1>4. CASE nr_done = Len(list)
  <2>1. /\ freed' = {"list"} /\ ended' = 1 /\ result' = failed
        /\ list' = [list EXCEPT ![j].st = "last"]
    BY <1>3, <1>4 DEF EndTest, EndOrig
  <2>2. /\ Len(list') = Len(list) /\ Places' = Places
        /\ list'[j].st = "last" /\ \A i \in Places \ {j} : list'[i] = list[i]
    BY Zenon, <2>1, Marked
  <2>3. Counted = Places
    BY <1>2, <1>4, CountedFinite DEF EndInv
  <2>4. \A i \in Places \ {j} : list'[i].st = "done"
    BY <1>3, <2>2, <2>3 DEF Counted
  <2>5. Counted' = Counted
    BY <1>1, <2>2, CountStays
  <2>6. EndInv'
    <3>1. nr_done' = Cardinality(Counted')
      BY <1>1, <1>2, <2>5 DEF EndInv
    <3>2. \A i \in Places' : (list'[i].st = "counted" <=> lock' = i) /\ list'[i].st \in {"last", "done"}
      BY <1>1, <2>2, <2>4 DEF Places
    <3>3. \E k \in Places' : list'[k].st = "last" /\ \A i \in Places' \ {k} : list'[i].st = "done"
      BY <2>2, <2>4
    <3> QED
      BY <1>1, <2>1, <3>1, <3>2, <3>3 DEF EndInv
  <2>7. SentInv'
    BY <1>1, <1>2, <2>2, SentStays
  <2>8. HeadType'
    BY <1>1, <2>1 DEF ChainInv, HeadType
  <2> QED
    BY <1>1, <1>2, <2>1, <2>6, <2>7, <2>8 DEF ChainInv
<1>5. CASE nr_done # Len(list)
  <2>1. /\ UNCHANGED <<freed, ended, result>>
        /\ list' = [list EXCEPT ![j].st = "done"]
    BY <1>5 DEF EndTest, endVars
  <2>2. /\ Len(list') = Len(list) /\ Places' = Places
        /\ list'[j].st = "done" /\ \A i \in Places \ {j} : list'[i] = list[i]
    BY Zenon, <2>1, Marked
  <2>3. PICK k \in Places : k \notin Counted
    BY Zenon, <1>2, <1>5, CountedFinite DEF EndInv, Counted
  <2>4. k # j /\ list'[k].st # "done"
    BY <1>1, <2>2, <2>3 DEF Counted
  <2>5. Counted' = Counted
    BY <1>1, <2>2, CountStays
  <2>6. EndInv'
    <3>1. nr_done' = Cardinality(Counted')
      BY <1>1, <1>2, <2>5 DEF EndInv
    <3>2. \A i \in Places' : (list'[i].st = "counted" <=> lock' = i) /\ list'[i].st # "last"
      BY <1>1, <1>3, <2>2 DEF Places
    <3>3. freed' = {} /\ ended' = 0 /\ error' = failed'
      BY <1>1, <1>3, <2>1
    <3> QED
      BY <1>1, <2>2, <2>4, <3>1, <3>2, <3>3 DEF EndInv
  <2>7. SentInv'
    BY <1>1, <1>2, <2>2, SentStays
  <2>8. HeadType'
    BY <1>1, <2>1 DEF ChainInv, HeadType
  <2> QED
    BY <1>1, <1>2, <2>6, <2>7, <2>8 DEF ChainInv
<1> QED
  BY <1>4, <1>5

LEMMA ChainFree ==
    ASSUME ChainType, ChainInv, NEW j \in Places, FreeHead(j)
    PROVE  ChainInv'
<1>1. /\ list[j].st = "last" /\ freed' = freed \cup {"head"}
      /\ UNCHANGED <<pc, cur, nr_done, error, lock, ended, result, failed>>
  BY DEF FreeHead, endVars
<1>2. /\ Len(list') = Len(list) /\ Places' = Places
      /\ list'[j].st = "done" /\ \A i \in Places \ {j} : list'[i] = list[i]
  BY Zenon, Marked DEF FreeHead
<1>3. cur # 0 /\ EndInv /\ SentInv /\ pc \in {"submit", "next", "over"}
  BY <1>1, Underway
<1>4. Counted' = Counted
  BY <1>1, <1>2, CountStays
<1>5. ended = 1 /\ result = failed /\ freed = {"list"} /\ \A i \in Places \ {j} : list[i].st = "done"
  BY <1>1, <1>3 DEF EndInv
<1>6. \A i \in Places' : list'[i].st = "done" /\ lock # i
  BY <1>1, <1>2, <1>3, <1>5 DEF EndInv
<1>7. EndInv'
  <2>1. nr_done' = Cardinality(Counted') /\ (lock' # 0 => lock' \in Places')
    BY <1>1, <1>2, <1>3, <1>4 DEF EndInv
  <2>2. freed' = {"list", "head"} /\ ended' = 1 /\ result' = failed' /\ lock' = lock
    BY <1>1, <1>5
  <2> QED
    BY <1>6, <2>1, <2>2 DEF EndInv
<1>8. SentInv'
  BY <1>1, <1>2, <1>3, SentStays
<1>9. HeadType'
  BY <1>1 DEF ChainInv, HeadType
<1> QED
  BY <1>1, <1>3, <1>7, <1>8, <1>9 DEF ChainInv

-----------------------------------------------------------------------------
(* Blocks and host sectors.                                                 *)

LEMMA DivUnique ==
    ASSUME NEW k \in Nat \ {0}, NEW q \in Nat, NEW r \in 0 .. k - 1,
           NEW p \in Nat, NEW t \in 0 .. k - 1, k * q + r = k * p + t
    PROVE  q = p /\ r = t
<1>1. q < p => k * q + k <= k * p
  <2>1. q < p => q + 1 <= p
    OBVIOUS
  <2>2. q + 1 <= p => k * (q + 1) <= k * p
    OBVIOUS
  <2>3. k * (q + 1) = k * q + k
    OBVIOUS
  <2> QED
    BY <2>1, <2>2, <2>3
<1>2. p < q => k * p + k <= k * q
  <2>1. p < q => p + 1 <= q
    OBVIOUS
  <2>2. p + 1 <= q => k * (p + 1) <= k * q
    OBVIOUS
  <2>3. k * (p + 1) = k * p + k
    OBVIOUS
  <2> QED
    BY <2>1, <2>2, <2>3
<1> QED
  BY <1>1, <1>2

LEMMA DivMod ==
    ASSUME NEW k \in Nat \ {0}, NEW x \in Nat
    PROVE  x = k * (x \div k) + (x % k) /\ x % k \in 0 .. k - 1 /\ x \div k \in Nat
OBVIOUS

LEMMA SameBlock ==
    ASSUME NEW k \in Nat \ {0}, NEW x \in Nat, NEW s \in Nat, (x % k) + s < k
    PROVE  (x + s) \div k = x \div k /\ (x + s) % k = (x % k) + s
<1> DEFINE y == x + s
<1>1. x = k * (x \div k) + (x % k) /\ x % k \in 0 .. k - 1 /\ x \div k \in Nat
  BY Zenon, DivMod
<1>2. y \in Nat
  OBVIOUS
<1>3. y = k * (y \div k) + (y % k) /\ y % k \in 0 .. k - 1 /\ y \div k \in Nat
  BY Zenon, <1>2, DivMod
<1>4. (x % k) + s \in 0 .. k - 1 /\ y = k * (x \div k) + ((x % k) + s)
  BY <1>1
<1> HIDE DEF y
<1>5. y \div k = x \div k /\ y % k = (x % k) + s
  BY <1>1, <1>3, <1>4, DivUnique
<1> QED
  BY <1>5 DEF y

ReqInv == req \in Requests /\ bmap \in Maps

End == req.base[req.pages + 1]

LEMMA ReqFacts ==
    ASSUME ReqInv
    PROVE  /\ req.start \in Nat /\ req.pages \in Nat /\ End \in Nat
           /\ \A p \in 1 .. req.pages : req.len[p] \in Nat \ {0}
           /\ \A p \in 1 .. req.pages + 1 : req.base[p] \in Nat
           /\ req.base[1] = 0
           /\ \A p \in 1 .. req.pages : req.base[p + 1] = req.base[p] + req.len[p]
           /\ \A p, q \in 1 .. req.pages + 1 : p < q => req.base[p] < req.base[q]
<1>1. req \in Requests
  BY DEF ReqInv
<1>2. /\ req.start \in Nat /\ req.pages \in Nat
      /\ req.len \in [1 .. req.pages -> Nat \ {0}]
      /\ req.base \in [1 .. req.pages + 1 -> Nat]
      /\ req.base[1] = 0
      /\ \A p \in 1 .. req.pages : req.base[p + 1] = req.base[p] + req.len[p]
      /\ \A p, q \in 1 .. req.pages + 1 : p < q => req.base[p] < req.base[q]
  BY Zenon, <1>1, RequestsAssumption
<1>3. /\ \A p \in 1 .. req.pages : req.len[p] \in Nat \ {0}
      /\ \A p \in 1 .. req.pages + 1 : req.base[p] \in Nat
  BY Zenon, <1>2
<1>4. End \in Nat
  BY <1>2, <1>3 DEF End
<1> QED
  BY Zenon, <1>2, <1>3, <1>4

\* Consecutive sectors of one block are consecutive on the host.
LEMMA HostRun ==
    ASSUME ReqInv, NEW x \in Nat, NEW s \in Nat, (x % SectorsPerBlock) + s < SectorsPerBlock,
           req.start <= x, x < req.start + End
    PROVE  HostSector(x) \in Nat /\ HostSector(x + s) = HostSector(x) + s
<1> DEFINE b == x \div SectorsPerBlock
<1>1. SectorsPerBlock \in Nat \ {0}
  BY SectorsAssumption
<1>2. x - req.start \in 0 .. End - 1 /\ req.start + (x - req.start) = x
  BY ReqFacts
<1>3. b \in DOMAIN bmap /\ bmap[b] \in Nat
  BY <1>2, MapsAssumption DEF ReqInv, End
<1>4. /\ (x + s) \div SectorsPerBlock = b
      /\ (x + s) % SectorsPerBlock = (x % SectorsPerBlock) + s
  BY Zenon, <1>1, SameBlock
<1>5. x % SectorsPerBlock \in Nat
  BY <1>1, DivMod
<1> DEFINE base == bmap[b] * SectorsPerBlock
<1>6. base \in Nat
  BY <1>1, <1>3
<1>7. /\ HostSector(x) = base + (x % SectorsPerBlock)
      /\ HostSector(x + s) = base + ((x % SectorsPerBlock) + s)
  BY <1>4 DEF HostSector
<1> HIDE DEF base
<1> QED
  BY <1>5, <1>6, <1>7

-----------------------------------------------------------------------------
(* The chain as the data sees it: a bio keeps its place and its mark.       *)

ChainOK ==
    /\ Len(list) \in Nat
    /\ Len(Chain) = IF new_bio = NULL THEN Len(list) ELSE Len(list) + 1
    /\ \A k \in Places : Chain[k] = list[k]
    /\ new_bio # NULL => Chain[Len(list) + 1] = new_bio

LEMMA ChainParts == ChainType => ChainOK
<1> SUFFICES ASSUME ChainType PROVE ChainOK
  OBVIOUS
<1>1. list \in Seq(Bio) /\ new_bio \in Bio /\ Len(list) \in Nat
  BY DEF ChainType
<1>2. CASE new_bio = NULL
  BY <1>1, <1>2 DEF Chain, ChainOK, Places
<1>3. CASE new_bio # NULL
  <2>1. Chain = Append(list, new_bio)
    BY <1>3 DEF Chain
  <2> QED
    BY <1>1, <1>3, <2>1, AppendProperties DEF ChainOK, Places
<1> QED
  BY <1>2, <1>3

MidStays ==
    /\ Len(Chain') >= Len(Chain)
    /\ \A k \in 1 .. Len(Chain) : Chain'[k].mid = Chain[k].mid

LEMMA ChainNow == ChainType /\ ChainType' => ChainOK /\ ChainOK'
BY ChainParts, PTL

LEMMA MidSame ==
    ASSUME ChainType, UNCHANGED <<list, new_bio>>
    PROVE  MidStays
<1>1. Chain' = Chain
  BY DEF Chain
<1>2. Len(Chain) \in Nat
  BY ChainParts DEF ChainOK
<1> QED
  BY <1>1, <1>2 DEF MidStays

LEMMA MidEmpty ==
    ASSUME ChainType, ChainType', list = <<>>, new_bio = NULL
    PROVE  MidStays
<1>1. ChainOK /\ ChainOK'
  BY ChainNow
<1>2. Len(Chain) = 0
  BY <1>1 DEF ChainOK
<1>3. Len(Chain') \in Nat
  BY <1>1 DEF ChainOK
<1> QED
  BY <1>2, <1>3 DEF MidStays

\* The bio in hand is chained.
LEMMA MidChained ==
    ASSUME ChainType, ChainType', new_bio # NULL, list' = Append(list, new_bio)
    PROVE  MidStays
<1>1. ChainOK /\ ChainOK'
  BY ChainNow
<1>2. /\ Len(list') = Len(list) + 1 /\ Places' = Places \cup {Len(list) + 1}
      /\ \A j \in Places : list'[j] = list[j]
      /\ list'[Len(list) + 1] = new_bio
  BY Zenon, Chained
<1>3. Len(Chain) = Len(list) + 1 /\ Len(Chain') >= Len(Chain) /\ Len(list) \in Nat
  BY <1>1, <1>2 DEF ChainOK
<1>4. \A k \in Places' : Chain'[k] = list'[k]
  BY Zenon, <1>1 DEF ChainOK
<1>5. \A k \in Places : Chain'[k] = Chain[k]
  BY Zenon, <1>1, <1>2, <1>4 DEF ChainOK
<1>6. Chain'[Len(list) + 1] = Chain[Len(list) + 1]
  BY <1>1, <1>2, <1>4 DEF ChainOK
<1>7. \A k \in 1 .. Len(Chain) : k \in Places \/ k = Len(list) + 1
  BY <1>3 DEF Places
<1> QED
  BY <1>3, <1>5, <1>6, <1>7 DEF MidStays

\* Data is added to the bio in hand.
LEMMA MidFilled ==
    ASSUME ChainType, ChainType', new_bio # NULL, new_bio' # NULL,
           new_bio'.mid = new_bio.mid, list' = list
    PROVE  MidStays
<1>1. ChainOK /\ ChainOK' /\ Places' = Places
  BY ChainNow DEF Places
<1>2. Len(Chain) = Len(list) + 1 /\ Len(Chain') = Len(Chain) /\ Len(list) \in Nat
  BY <1>1 DEF ChainOK
<1>3. \A k \in Places : Chain'[k] = Chain[k]
  BY <1>1 DEF ChainOK
<1>4. Chain'[Len(list) + 1].mid = Chain[Len(list) + 1].mid
  BY <1>1 DEF ChainOK
<1>5. \A k \in 1 .. Len(Chain) : k \in Places \/ k = Len(list) + 1
  BY <1>2 DEF Places
<1> QED
  BY <1>2, <1>3, <1>4, <1>5 DEF MidStays

\* The state of a bio changes.
LEMMA MidMarked ==
    ASSUME ChainType, ChainType', new_bio' = new_bio, Places' = Places,
           Len(list') = Len(list), \A k \in Places : list'[k].mid = list[k].mid
    PROVE  MidStays
<1>1. ChainOK /\ ChainOK'
  BY ChainNow
<1>2. Len(Chain') = Len(Chain) /\ Len(Chain) \in Nat
  BY <1>1 DEF ChainOK
<1>3. \A k \in Places : Chain'[k].mid = Chain[k].mid
  BY <1>1 DEF ChainOK
<1>4. new_bio # NULL => Chain'[Len(list) + 1] = Chain[Len(list) + 1]
  BY <1>1 DEF ChainOK
<1>5. \A k \in 1 .. Len(Chain) : k \in Places \/ (new_bio # NULL /\ k = Len(list) + 1)
  BY <1>1 DEF ChainOK, Places
<1> QED
  BY <1>2, <1>3, <1>4, <1>5 DEF MidStays

-----------------------------------------------------------------------------
(* The data.                                                                *)

DataType ==
    /\ total \in Nat /\ logical \in Nat /\ phys \in Nat /\ next \in Nat
    /\ remaining \in Nat /\ count \in Nat
    /\ page \in 0 .. req.pages /\ off \in Nat /\ len \in Nat

\* Sectors of the transfer that have been put into bios.
Done == IF page = 0 THEN 0 ELSE req.base[page] + off

\* Where the task is in the transfer, in the block and in the host bio.
PlaceInv ==
    pc \in {"block", "page"} =>
       /\ page = 0 => off = 0 /\ len = 0
       /\ page # 0 => off + len = req.len[page]
       /\ logical + total = req.start + End
       /\ logical = req.start + Done + remaining
       /\ pc = "block" => remaining = 0
       /\ count = 0 => new_bio = NULL /\ list = <<>> /\ wire = {}
       /\ count # 0 /\ ~new_bio.mid => new_bio.sector + new_bio.size + remaining = next
       /\ \A s \in 0 .. remaining - 1 :
             HostSector(logical - remaining + s) = (next - remaining) + s

LEMMA DoneNat ==
    ASSUME ReqInv, DataType
    PROVE  Done \in Nat
BY ReqFacts DEF Done, DataType

LEMMA BlockTranslated ==
    ASSUME ReqInv, DataType, PlaceInv, NextBlock
    PROVE  /\ phys' = HostSector(logical) /\ phys' \in Nat
           /\ \E n \in 1 .. total :
                 /\ remaining' = n /\ total' = total - n /\ logical' = logical + n
                 /\ next' = phys' + n
                 /\ \A s \in 0 .. n - 1 : HostSector(logical + s) = phys' + s
<1> DEFINE n == Smaller(total, SectorsPerBlock - (logical % SectorsPerBlock))
<1>1. /\ pc = "block" /\ total > 0 /\ phys' = HostSector(logical)
      /\ remaining' = n /\ total' = total - n /\ logical' = logical + n /\ next' = phys' + n
  BY DEF NextBlock
<1>2. SectorsPerBlock \in Nat \ {0} /\ logical \in Nat /\ total \in Nat
  BY SectorsAssumption DEF DataType
<1>3. logical % SectorsPerBlock \in 0 .. SectorsPerBlock - 1
  BY <1>2, DivMod
<1>4. n \in 1 .. total /\ (logical % SectorsPerBlock) + n <= SectorsPerBlock
  BY <1>1, <1>2, <1>3 DEF Smaller
<1>5. req.start <= logical /\ logical < req.start + End
  BY <1>1, <1>2, DoneNat, ReqFacts DEF PlaceInv, DataType
<1> HIDE DEF n
<1>6. ASSUME NEW s \in 0 .. n - 1
      PROVE  HostSector(logical) \in Nat /\ HostSector(logical + s) = HostSector(logical) + s
  <2>1. s \in Nat /\ (logical % SectorsPerBlock) + s < SectorsPerBlock
    BY <1>2, <1>3, <1>4
  <2> QED
    BY Zenon, <1>2, <1>5, <2>1, HostRun
<1>7. 0 \in 0 .. n - 1
  BY <1>4
<1> QED
  BY <1>1, <1>4, <1>6, <1>7

LEMMA BlockStep ==
    ASSUME ReqInv, ChainType, NewInv, DataType, PlaceInv, NextBlock
    PROVE  /\ DataType' /\ ChainType' /\ NewInv' /\ PlaceInv' /\ Grows /\ MidStays
<1>1. /\ pc = "block" /\ pc' = "page" /\ count' = count + 1
      /\ UNCHANGED <<req, bmap, page, off, len, wire>>
  BY DEF NextBlock, pageVars
<1>2. /\ phys' = HostSector(logical) /\ phys' \in Nat
  BY BlockTranslated
<1>3. PICK n \in 1 .. total :
         /\ remaining' = n /\ total' = total - n /\ logical' = logical + n
         /\ next' = phys' + n
         /\ \A s \in 0 .. n - 1 : HostSector(logical + s) = phys' + s
  BY BlockTranslated
<1>4. DataType'
  BY <1>1, <1>2, <1>3 DEF DataType
<1>5. \/ count = 0 /\ new_bio' = NewBio(phys', FALSE) /\ list' = list
      \/ count # 0 /\ phys' = next /\ UNCHANGED <<new_bio, list>>
      \/ count # 0 /\ list' = Append(list, new_bio) /\ new_bio' = NewBio(phys', FALSE)
  <2>1. \/ count = 0 /\ new_bio' = NewBio(phys', FALSE) /\ list' = list
        \/ count > 0 /\ phys' = next /\ UNCHANGED <<new_bio, list>>
        \/ count > 0 /\ list' = Append(list, new_bio) /\ new_bio' = NewBio(phys', FALSE)
    BY Zenon DEF NextBlock
  <2>2. count > 0 => count # 0
    BY DEF DataType
  <2> QED
    BY Zenon, <2>1, <2>2
<1>6. /\ NewBio(phys', FALSE) \in Bio /\ NewBio(phys', FALSE).st = "new"
      /\ NewBio(phys', FALSE).sector = phys' /\ NewBio(phys', FALSE).size = 0
      /\ NewBio(phys', FALSE) # NULL
  BY <1>2 DEF NewBio, Bio, NULL
<1>7. count # 0 => new_bio.st = "new" /\ new_bio # NULL
  BY <1>1 DEF NewInv, NULL
<1>8. ChainType'
  BY Zenon, <1>5, <1>6, Chained DEF ChainType
<1>9. NewInv'
  <2>1. new_bio'.st = "new"
    BY Zenon, <1>5, <1>6, <1>7
  <2>2. count' # 0
    BY <1>1 DEF DataType
  <2> QED
    BY Zenon, <2>1, <2>2 DEF NewInv
<1>10. Grows
  BY Zenon, <1>5, <1>7 DEF Grows
<1>11. MidStays
  <2>1. CASE count = 0
    BY <1>1, <1>8, <2>1, MidEmpty DEF PlaceInv
  <2>2. CASE count # 0
    BY Zenon, <1>5, <1>7, <1>8, <2>2, MidSame, MidChained
  <2> QED
    BY <2>1, <2>2
<1>12. PlaceInv'
  <2>1. Done' = Done /\ End' = End /\ Done \in Nat
    BY <1>1, DoneNat DEF Done, End
  <2>2. count' # 0
    BY <1>1 DEF DataType
  <2>3. /\ page' = 0 => off' = 0 /\ len' = 0
        /\ page' # 0 => off' + len' = req'.len[page']
    BY <1>1 DEF PlaceInv
  <2>4. logical' + total' = req'.start + End'
    BY <1>1, <1>3, <2>1 DEF PlaceInv, DataType
  <2>5. logical' = req'.start + Done' + remaining'
    BY <1>1, <1>3, <2>1, ReqFacts DEF PlaceInv, DataType
  <2>6. ~new_bio'.mid => new_bio'.sector + new_bio'.size + remaining' = next'
    <3>1. CASE new_bio' = NewBio(phys', FALSE)
      <4>1. new_bio'.sector = phys' /\ new_bio'.size = 0
        BY Zenon, <1>6, <3>1
      <4> QED
        BY <1>2, <1>3, <4>1
    <3>2. CASE count # 0 /\ phys' = next /\ new_bio' = new_bio
      <4>1. new_bio.sector \in Nat /\ new_bio.size \in Nat
        BY DEF ChainType, Bio
      <4>2. ~new_bio.mid => new_bio.sector + new_bio.size = next
        BY <1>1, <3>2, <4>1 DEF PlaceInv, DataType
      <4> QED
        BY <1>3, <3>2, <4>1, <4>2 DEF DataType
    <3> QED
      BY Zenon, <1>5, <3>1, <3>2
  <2>7. \A s \in 0 .. remaining' - 1 :
           HostSector(logical - remaining + s)' = (next' - remaining') + s
    <3> SUFFICES ASSUME NEW s \in 0 .. remaining' - 1
                 PROVE  HostSector(logical - remaining + s)' = (next' - remaining') + s
      OBVIOUS
    <3>1. logical' - remaining' + s = logical + s /\ next' - remaining' = phys'
      BY <1>2, <1>3 DEF DataType
    <3>2. HostSector(logical - remaining + s)' = HostSector(logical + s)
      BY <1>1, <3>1 DEF HostSector
    <3> QED
      BY <1>3, <3>1, <3>2
  <2> QED
    BY <1>1, <2>2, <2>3, <2>4, <2>5, <2>6, <2>7 DEF PlaceInv
<1> QED
  BY <1>4, <1>8, <1>9, <1>10, <1>11, <1>12

\* The page in hand has data for the block, and it is the data that is due.
LEMMA PageTaken ==
    ASSUME ReqInv, DataType, PlaceInv, pc = "page", remaining > 0
    PROVE  /\ InHand.page \in 1 .. req.pages
           /\ InHand.off \in Nat /\ InHand.len \in Nat \ {0}
           /\ InHand.off + InHand.len = req.len[InHand.page]
           /\ req.start + req.base[InHand.page] + InHand.off + remaining = logical
           /\ \/ InHand.page = page /\ InHand.off = off
              \/ /\ InHand.page = page + 1 /\ InHand.off = 0
                 /\ page = 0 \/ off = req.len[page]
<1>1. /\ req.start \in Nat /\ req.pages \in Nat /\ End \in Nat
      /\ req.base[1] = 0 /\ page \in 0 .. req.pages /\ remaining \in Nat
      /\ logical \in Nat /\ total \in Nat /\ off \in Nat /\ len \in Nat
  BY ReqFacts DEF DataType
<1>2. /\ page = 0 => off = 0 /\ len = 0
      /\ page # 0 => off + len = req.len[page]
      /\ logical + total = req.start + End
      /\ logical = req.start + Done + remaining
  BY DEF PlaceInv
<1>3. CASE len = 0
  <2>1. /\ InHand.page = page + 1 /\ InHand.off = 0
        /\ InHand.len = req.len[page + 1]
    BY <1>3 DEF InHand
  <2>2. page + 1 \in 1 .. req.pages + 1 /\ req.base[page + 1] = Done
    <3>1. CASE page = 0
      BY <1>1, <3>1 DEF Done
    <3>2. CASE page # 0
      <4>1. page \in 1 .. req.pages
        BY <1>1, <3>2
      <4>2. req.base[page + 1] = req.base[page] + req.len[page] /\ off = req.len[page]
        BY <1>1, <1>2, <1>3, <4>1, ReqFacts
      <4> QED
        BY <1>1, <3>2, <4>1, <4>2 DEF Done
    <3> QED
      BY <3>1, <3>2
  <2>3. page # req.pages
    <3> SUFFICES ASSUME page = req.pages PROVE FALSE
      OBVIOUS
    <3>1. Done = End
      BY <2>2 DEF End
    <3> QED
      BY <1>1, <1>2, <3>1
  <2>4. page + 1 \in 1 .. req.pages
    BY <1>1, <2>3
  <2>5. req.len[page + 1] \in Nat \ {0}
    BY <2>4, ReqFacts
  <2>6. Done \in Nat
    BY DoneNat
  <2>7. req.start + req.base[page + 1] + 0 + remaining = logical
    BY <1>1, <1>2, <2>2, <2>6
  <2>8. page = 0 \/ off = req.len[page]
    BY <1>1, <1>2, <1>3
  <2> QED
    BY <2>1, <2>4, <2>5, <2>7, <2>8
<1>4. CASE len # 0
  <2>1. InHand.page = page /\ InHand.off = off /\ InHand.len = len
    BY <1>4 DEF InHand
  <2>2. page \in 1 .. req.pages
    BY <1>1, <1>2, <1>4
  <2>3. req.start + req.base[page] + off + remaining = logical
    BY <1>1, <1>2, <2>2, ReqFacts DEF Done
  <2> QED
    BY <1>1, <1>2, <1>4, <2>1, <2>2, <2>3
<1> QED
  BY <1>3, <1>4

\* n sectors of it are added to bio b, number k of the chain.
LEMMA PageAdded ==
    ASSUME ReqInv, DataType, PlaceInv, pc = "page", remaining > 0, count # 0,
           NEW STATE b, b \in Bio, b.st = "new", NEW STATE k,
           ~b.mid => b.sector + b.size + remaining = next,
           Added(b, k, Smaller(remaining, InHand.len)),
           UNCHANGED <<req, bmap, pc, total, logical, phys, next, count>>
    PROVE  /\ DataType' /\ PlaceInv'
           /\ new_bio' \in Bio /\ new_bio'.st = "new" /\ new_bio'.mid = b.mid
           /\ \A w \in wire' : w \in wire \/
                 /\ w.bio = k
                 /\ b.mid \/ w.at = HostSector(req.start + req.base[w.page] + w.off)
<1> DEFINE q == InHand.page
           o == InHand.off
           l == InHand.len
           n == Smaller(remaining, l)
<1>1. /\ q \in 1 .. req.pages /\ o \in Nat /\ l \in Nat \ {0} /\ o + l = req.len[q]
      /\ req.start + req.base[q] + o + remaining = logical
  BY PageTaken
<1>2. /\ new_bio' = [b EXCEPT !.size = @ + n]
      /\ wire' = wire \cup {[bio |-> k, at |-> b.sector + b.size + s,
                             page |-> q, off |-> o + s] : s \in 0 .. n - 1}
      /\ page' = q /\ off' = o + n /\ len' = l - n /\ remaining' = remaining - n
  BY DEF Added
<1>3. n \in Nat /\ n <= remaining /\ n <= l /\ n > 0 /\ remaining \in Nat
  BY <1>1 DEF Smaller, DataType
<1>4. /\ req.start \in Nat /\ req.base[q] \in Nat /\ logical \in Nat /\ next \in Nat
      /\ req.pages \in Nat
  BY <1>1, ReqFacts DEF DataType
<1>5. b.sector \in Nat /\ b.size \in Nat
  BY DEF Bio
<1>6. \A s \in 0 .. remaining - 1 : HostSector(logical - remaining + s) = (next - remaining) + s
  BY DEF PlaceInv
<1>7. logical + total = req.start + End
  BY DEF PlaceInv
<1> HIDE DEF q, o, l, n
<1>8. /\ new_bio' \in Bio /\ new_bio'.st = "new" /\ new_bio'.mid = b.mid
      /\ new_bio'.sector = b.sector /\ new_bio'.size = b.size + n
  BY <1>2, <1>3 DEF Bio
<1>9. DataType'
  BY <1>1, <1>2, <1>3 DEF DataType
<1>10. PlaceInv'
  <2>1. page' # 0 /\ off' + len' = req'.len[page']
    BY <1>1, <1>2, <1>3
  <2>2. logical' = req'.start + Done' + remaining'
    <3>1. Done' = req.base[q] + (o + n)
      BY <1>1, <1>2 DEF Done
    <3> QED
      BY <1>1, <1>2, <1>3, <1>4, <3>1
  <2>3. ~new_bio'.mid => new_bio'.sector + new_bio'.size + remaining' = next'
    BY <1>2, <1>3, <1>4, <1>5, <1>8
  <2>4. ASSUME NEW s \in 0 .. remaining' - 1
        PROVE  HostSector(logical - remaining + s)' = (next' - remaining') + s
    <3>1. n + s \in 0 .. remaining - 1 /\ logical' - remaining' + s = logical - remaining + (n + s)
      BY <1>2, <1>3, <1>4
    <3>2. HostSector(logical - remaining + s)' = HostSector(logical - remaining + (n + s))
      BY <3>1 DEF HostSector
    <3>3. HostSector(logical - remaining + (n + s)) = (next - remaining) + (n + s)
      BY <1>6, <3>1
    <3>4. (next - remaining) + (n + s) = (next' - remaining') + s
      BY <1>2, <1>3, <1>4
    <3> QED
      BY <3>2, <3>3, <3>4
  <2>5. logical' + total' = req'.start + End'
    BY <1>7 DEF End
  <2> QED
    BY <2>1, <2>2, <2>3, <2>4, <2>5 DEF PlaceInv
<1>11. ASSUME NEW w \in wire', w \notin wire
       PROVE  /\ w.bio = k
              /\ b.mid \/ w.at = HostSector(req.start + req.base[w.page] + w.off)
  <2>1. PICK s \in 0 .. n - 1 : w = [bio |-> k, at |-> b.sector + b.size + s,
                                     page |-> q, off |-> o + s]
    BY <1>2, <1>11
  <2>2. w.bio = k /\ w.at = b.sector + b.size + s /\ w.page = q /\ w.off = o + s
    BY <2>1
  <2>3. s \in 0 .. remaining - 1
    BY <1>3
  <2>4. req.start + req.base[q] + (o + s) = logical - remaining + s
    BY <1>1, <1>3, <1>4
  <2>5. ~b.mid => b.sector + b.size + s = (next - remaining) + s
    BY <1>3, <1>4, <1>5
  <2>6. HostSector(logical - remaining + s) = (next - remaining) + s
    BY <1>6, <2>3
  <2> QED
    BY <2>2, <2>4, <2>5, <2>6
<1> QED
  BY <1>8, <1>9, <1>10, <1>11

-----------------------------------------------------------------------------
(* What has been added is there once, and nothing else is.                  *)

Copies(p, s) == {w \in wire : w.page = p /\ w.off = s}

Reached(p, s) == p < page \/ (p = page /\ s < off)

CoverInv ==
    pc \in {"block", "page"} =>
       \A p \in 1 .. req.pages : \A s \in 0 .. req.len[p] - 1 :
          /\ Reached(p, s) => \E x : Copies(p, s) = {x}
          /\ ~Reached(p, s) => Copies(p, s) = {}

LEMMA PageCovered ==
    ASSUME ReqInv, DataType, PlaceInv, CoverInv, pc = "page", remaining > 0,
           NEW STATE b, NEW STATE k,
           Added(b, k, Smaller(remaining, InHand.len)), UNCHANGED <<req, pc>>
    PROVE  CoverInv'
<1> DEFINE q == InHand.page
           o == InHand.off
           l == InHand.len
           n == Smaller(remaining, l)
           new(t) == [bio |-> k, at |-> b.sector + b.size + t, page |-> q, off |-> o + t]
<1>1. /\ q \in 1 .. req.pages /\ o \in Nat /\ l \in Nat \ {0} /\ o + l = req.len[q]
      /\ \/ q = page /\ o = off
         \/ q = page + 1 /\ o = 0 /\ (page = 0 \/ off = req.len[page])
  BY PageTaken
<1>2. /\ wire' = wire \cup {new(t) : t \in 0 .. n - 1}
      /\ page' = q /\ off' = o + n
  BY DEF Added
<1>3. n \in Nat /\ n <= l /\ n > 0
  BY <1>1 DEF Smaller, DataType
<1>4. page \in Nat /\ off \in Nat /\ req.pages \in Nat
  BY ReqFacts DEF DataType
<1>5. \A t : new(t).page = q /\ new(t).off = o + t
  OBVIOUS
<1> HIDE DEF q, o, l, n, new
<1> SUFFICES ASSUME NEW p \in 1 .. req.pages, NEW s \in 0 .. req.len[p] - 1
             PROVE  /\ Reached(p, s)' => \E x : Copies(p, s)' = {x}
                    /\ ~Reached(p, s)' => Copies(p, s)' = {}
  BY Zenon DEF CoverInv
<1>6. req.len[p] \in Nat /\ s \in Nat /\ p \in Nat /\ q \in Nat
  BY <1>1, <1>4, ReqFacts
<1>7. /\ Reached(p, s) => \E x : Copies(p, s) = {x}
      /\ ~Reached(p, s) => Copies(p, s) = {}
  BY Zenon DEF CoverInv
<1>8. CASE p = q /\ s >= o /\ s < o + n
  <2>1. Copies(p, s) = {}
    BY <1>1, <1>4, <1>6, <1>7, <1>8 DEF Reached
  <2>2. s - o \in 0 .. n - 1 /\ o + (s - o) = s
    BY <1>1, <1>3, <1>6, <1>8
  <2>3. \A t \in 0 .. n - 1 : o + t = s => t = s - o
    BY <1>1, <1>3, <1>6
  <2>4. \A w \in {new(t) : t \in 0 .. n - 1} : w.off = s => w = new(s - o)
    BY <1>5, <2>3
  <2>5. new(s - o) \in wire' /\ new(s - o).page = p /\ new(s - o).off = s
    BY <1>2, <1>5, <1>8, <2>2
  <2>6. Copies(p, s)' = {new(s - o)}
    BY <1>2, <2>1, <2>4, <2>5 DEF Copies
  <2>7. Reached(p, s)'
    BY <1>2, <1>8 DEF Reached
  <2> QED
    BY Zenon, <2>6, <2>7
<1>9. CASE ~(p = q /\ s >= o /\ s < o + n)
  <2>1. \A t \in 0 .. n - 1 : ~(new(t).page = p /\ new(t).off = s)
    BY <1>1, <1>3, <1>5, <1>6, <1>9
  <2>2. Copies(p, s)' = Copies(p, s)
    BY <1>2, <2>1 DEF Copies
  <2>3. Reached(p, s)' <=> p < q \/ (p = q /\ s < o + n)
    BY <1>2 DEF Reached
  <2>4. Reached(p, s)' <=> p < q \/ (p = q /\ s < o)
    BY <1>1, <1>3, <1>6, <1>9, <2>3
  <2>5. Reached(p, s)' <=> Reached(p, s)
    <3>1. CASE q = page /\ o = off
      BY <2>4, <3>1 DEF Reached
    <3>2. CASE q = page + 1 /\ o = 0 /\ (page = 0 \/ off = req.len[page])
      BY <1>4, <1>6, <2>4, <3>2 DEF Reached
    <3> QED
      BY <1>1, <3>1, <3>2
  <2> QED
    BY Zenon, <1>7, <2>2, <2>5
<1> QED
  BY Zenon, <1>8, <1>9

\* When no block is left, every page has been used up.
LEMMA AllCovered ==
    ASSUME ReqInv, DataType, PlaceInv, CoverInv, pc = "block", total = 0
    PROVE  \A p \in 1 .. req.pages : \A s \in 0 .. req.len[p] - 1 :
              Cardinality(Copies(p, s)) = 1
<1>1. /\ req.start \in Nat /\ req.pages \in Nat /\ End \in Nat
      /\ page \in 0 .. req.pages /\ off \in Nat /\ len \in Nat /\ logical \in Nat
      /\ req.base[1] = 0 /\ remaining \in Nat
  BY ReqFacts DEF DataType
<1>2. Done = End
  BY <1>1, DoneNat DEF PlaceInv
<1> SUFFICES ASSUME NEW p \in 1 .. req.pages, NEW s \in 0 .. req.len[p] - 1
             PROVE  Cardinality(Copies(p, s)) = 1
  OBVIOUS
<1>3. 1 \in 1 .. req.pages + 1 /\ req.pages + 1 \in 1 .. req.pages + 1 /\ 1 < req.pages + 1
  BY <1>1
<1>4. page # 0
  <2>1. req.base[1] < End
    BY <1>3, ReqFacts DEF End
  <2> QED
    BY <1>1, <1>2, <2>1 DEF Done
<1>5. page \in 1 .. req.pages /\ page + 1 \in 1 .. req.pages + 1
  BY <1>1, <1>4
<1>6. /\ req.base[page + 1] = req.base[page] + req.len[page]
      /\ req.len[page] \in Nat /\ req.base[page] \in Nat /\ req.len[p] \in Nat
  BY <1>5, ReqFacts
<1>7. off + len = req.len[page] /\ req.base[page] + off = End
  BY <1>2, <1>4 DEF PlaceInv, Done
<1>8. page = req.pages
  <2>1. page + 1 < req.pages + 1 => req.base[page + 1] < End
    BY <1>3, <1>5, ReqFacts DEF End
  <2> QED
    BY <1>1, <1>5, <1>6, <1>7, <2>1
<1>9. off = req.len[page]
  BY <1>1, <1>6, <1>7, <1>8 DEF End
<1>10. Reached(p, s)
  BY <1>1, <1>6, <1>8, <1>9 DEF Reached
<1>11. PICK x : Copies(p, s) = {x}
  BY Zenon, <1>10 DEF CoverInv
<1> QED
  BY Zenon, <1>11, FS_Singleton

-----------------------------------------------------------------------------
(* Where the data goes.                                                     *)

WireInv ==
    \A w \in wire :
       /\ w.bio \in 1 .. Len(Chain)
       /\ \/ Chain[w.bio].mid
          \/ w.at = HostSector(req.start + req.base[w.page] + w.off)

LEMMA WireKept ==
    ASSUME ChainType, WireInv, MidStays, UNCHANGED <<req, bmap>>, ChainOK',
           \A w \in wire' : w \in wire \/
              /\ w.bio = Len(Chain')
              /\ Len(Chain') > 0
              /\ \/ Chain'[w.bio].mid
                 \/ w.at = HostSector(req.start + req.base[w.page] + w.off)
    PROVE  WireInv'
<1>1. Len(Chain) \in Nat /\ Len(Chain') \in Nat
  BY ChainParts DEF ChainOK
<1> SUFFICES ASSUME NEW w \in wire'
             PROVE  /\ w.bio \in 1 .. Len(Chain')
                    /\ \/ Chain'[w.bio].mid
                       \/ w.at = HostSector(req.start + req.base[w.page] + w.off)'
  BY DEF WireInv
<1>2. HostSector(req.start + req.base[w.page] + w.off)'
        = HostSector(req.start + req.base[w.page] + w.off)
  BY DEF HostSector
<1>3. CASE w \in wire
  <2>1. w.bio \in 1 .. Len(Chain) /\ w.bio \in 1 .. Len(Chain')
    BY <1>1, <1>3 DEF WireInv, MidStays
  <2>2. Chain'[w.bio].mid = Chain[w.bio].mid
    BY <2>1 DEF MidStays
  <2> QED
    BY <1>2, <1>3, <2>1, <2>2 DEF WireInv
<1>4. CASE w \notin wire
  BY <1>1, <1>2, <1>4
<1> QED
  BY <1>3, <1>4

-----------------------------------------------------------------------------
(* The inductive invariant.                                                 *)

BioInv ==
    /\ ReqInv /\ ChainType /\ ChainInv /\ NewInv /\ DataType
    /\ PlaceInv /\ CoverInv /\ WireInv /\ NothingLost

LEMMA InitBio == Init => BioInv
<1> SUFFICES ASSUME Init PROVE BioInv
  OBVIOUS
<1>1. ReqInv
  BY DEF Init, ReqInv
<1>2. ChainType
  BY EmptySeq DEF Init, ChainType, Bio, NULL
<1>3. Places = {}
  BY DEF Init, Places
<1>4. ChainInv
  BY Zenon, <1>3 DEF Init, ChainInv, HeadType, SentInv, Unsent
<1>5. DataType
  BY <1>1, ReqFacts DEF Init, DataType, End
<1>6. PlaceInv
  BY <1>1, ReqFacts DEF Init, PlaceInv, Done, End
<1>7. CoverInv
  <2>1. \A q \in 1 .. req.pages, s \in Nat : ~Reached(q, s)
    BY <1>1, ReqFacts DEF Init, Reached
  <2>2. \A q, s : Copies(q, s) = {}
    BY DEF Init, Copies
  <2>3. \A q \in 1 .. req.pages : \A s \in 0 .. req.len[q] - 1 : s \in Nat
    BY <1>1, ReqFacts
  <2> QED
    BY Zenon, <2>1, <2>2, <2>3 DEF CoverInv
<1>8. NewInv /\ WireInv /\ NothingLost
  BY DEF Init, NewInv, WireInv, NothingLost
<1> QED
  BY <1>1, <1>2, <1>4, <1>5, <1>6, <1>7, <1>8 DEF BioInv

LEMMA NextBlockStep ==
    ASSUME BioInv, NextBlock
    PROVE  BioInv'
<1>1. DataType' /\ ChainType' /\ NewInv' /\ PlaceInv' /\ Grows /\ MidStays
  BY BlockStep DEF BioInv
<1>2. /\ pc = "block" /\ pc' = "page"
      /\ UNCHANGED <<req, bmap, page, off, wire, cur, headVars, endVars, failed>>
  BY DEF NextBlock, pageVars
<1>3. ChainInv'
  BY <1>1, <1>2, ChainBuild DEF BioInv
<1>4. CoverInv'
  <2>1. \A q, s : Reached(q, s)' = Reached(q, s) /\ Copies(q, s)' = Copies(q, s)
    BY <1>2 DEF Reached, Copies
  <2> QED
    BY Zenon, <1>2, <2>1 DEF BioInv, CoverInv
<1>5. WireInv'
  BY <1>1, <1>2, WireKept, ChainNow DEF BioInv
<1> QED
  BY Zenon, <1>1, <1>2, <1>3, <1>4, <1>5 DEF BioInv, ReqInv, NothingLost

LEMMA AddPageStep ==
    ASSUME BioInv, AddPage
    PROVE  BioInv'
<1>1. /\ pc = "page" /\ remaining > 0
      /\ Added(new_bio, Len(list) + 1, Smaller(remaining, InHand.len))
      /\ UNCHANGED <<req, bmap, pc, total, logical, phys, next, count, list, cur,
                     headVars, endVars, failed>>
  BY DEF AddPage
<1>2. /\ count # 0 /\ new_bio.st = "new" /\ new_bio \in Bio
      /\ ~new_bio.mid => new_bio.sector + new_bio.size + remaining = next
  BY <1>1 DEF BioInv, NewInv, PlaceInv, ChainType
<1>3. /\ DataType' /\ PlaceInv'
      /\ new_bio' \in Bio /\ new_bio'.st = "new" /\ new_bio'.mid = new_bio.mid
      /\ \A w \in wire' : w \in wire \/
            /\ w.bio = Len(list) + 1
            /\ new_bio.mid \/ w.at = HostSector(req.start + req.base[w.page] + w.off)
  BY <1>1, <1>2, PageAdded DEF BioInv
<1>4. CoverInv'
  BY <1>1, PageCovered DEF BioInv
<1>5. ChainType' /\ NewInv' /\ Grows
  BY Zenon, <1>1, <1>2, <1>3 DEF BioInv, ChainType, NewInv, Grows
<1>6. ChainInv'
  BY <1>1, <1>5, ChainBuild DEF BioInv
<1>7. new_bio # NULL /\ new_bio' # NULL
  BY <1>2, <1>3 DEF NULL
<1>8. MidStays /\ ChainOK'
  BY <1>1, <1>3, <1>5, <1>7, MidFilled, ChainNow DEF BioInv
<1>9. Len(Chain') = Len(list) + 1 /\ Chain'[Len(list) + 1] = new_bio' /\ Len(Chain') > 0
  BY <1>1, <1>7, <1>8 DEF ChainOK
<1>10. WireInv'
  BY <1>1, <1>3, <1>8, <1>9, WireKept DEF BioInv
<1> QED
  BY Zenon, <1>1, <1>3, <1>4, <1>5, <1>6, <1>10 DEF BioInv, ReqInv, NothingLost

LEMMA RefusedStep ==
    ASSUME BioInv, AddPageRefused
    PROVE  BioInv'
<1> DEFINE b == NewBio(phys, phys + remaining # next)
<1>1. /\ pc = "page" /\ remaining > 0 /\ list' = Append(list, new_bio)
      /\ Added(b, Len(list) + 2, Smaller(remaining, InHand.len))
      /\ UNCHANGED <<req, bmap, pc, total, logical, phys, next, count, cur,
                     headVars, endVars, failed>>
  BY DEF AddPageRefused
<1>2. count # 0 /\ new_bio.st = "new" /\ new_bio # NULL
  BY <1>1 DEF BioInv, NewInv, NULL
<1>3. phys \in Nat /\ remaining \in Nat /\ next \in Nat
  BY DEF BioInv, DataType
<1>4. /\ b \in Bio /\ b.st = "new"
      /\ b.sector = phys /\ b.size = 0 /\ (b.mid <=> phys + remaining # next)
  BY Zenon, <1>3 DEF NewBio, Bio
<1> HIDE DEF b
<1>5. ~b.mid => b.sector + b.size + remaining = next
  <2>1. ~b.mid => phys + remaining = next
    BY Zenon, <1>4
  <2> QED
    BY <1>3, <1>4, <2>1
<1>6. /\ DataType' /\ PlaceInv'
      /\ new_bio' \in Bio /\ new_bio'.st = "new" /\ new_bio'.mid = b.mid
      /\ \A w \in wire' : w \in wire \/
            /\ w.bio = Len(list) + 2
            /\ b.mid \/ w.at = HostSector(req.start + req.base[w.page] + w.off)
  BY <1>1, <1>2, <1>4, <1>5, PageAdded DEF BioInv
<1>7. CoverInv'
  BY <1>1, PageCovered DEF BioInv
<1>8. list' \in Seq(Bio) /\ Len(list') = Len(list) + 1
  BY Zenon, <1>1, Chained DEF BioInv
<1>9. ChainType' /\ NewInv' /\ Grows
  BY <1>1, <1>2, <1>6, <1>8 DEF ChainType, NewInv, Grows
<1>10. ChainInv'
  BY <1>1, <1>9, ChainBuild DEF BioInv
<1>11. new_bio' # NULL
  BY <1>6 DEF NULL
<1>12. MidStays /\ ChainOK' /\ Len(list) \in Nat
  BY <1>1, <1>2, <1>9, MidChained, ChainNow, ChainShape DEF BioInv
<1>13. Len(Chain') = Len(list) + 2 /\ Chain'[Len(list) + 2] = new_bio' /\ Len(Chain') > 0
  BY <1>8, <1>11, <1>12 DEF ChainOK
<1>14. WireInv'
  BY <1>1, <1>6, <1>12, <1>13, WireKept DEF BioInv
<1> QED
  BY <1>1, <1>6, <1>7, <1>9, <1>10, <1>14 DEF BioInv, ReqInv, NothingLost

\* Steps after which the task adds no more data.
LEMMA DataOver ==
    ASSUME BioInv, ChainType', ChainInv', MidStays, pc' \notin {"block", "page"},
           UNCHANGED <<req, bmap, blockVars, pageVars, wire>>,
           \/ pc' = "over"
           \/ pc \in {"submit", "next"}
           \/ \A p \in 1 .. req.pages : \A s \in 0 .. req.len[p] - 1 :
                 Cardinality(Copies(p, s)) = 1
    PROVE  BioInv'
<1>1. ReqInv' /\ DataType'
  BY DEF BioInv, ReqInv, DataType, blockVars, pageVars
<1>2. NewInv' /\ PlaceInv' /\ CoverInv'
  BY Zenon DEF NewInv, PlaceInv, CoverInv
<1>3. WireInv'
  BY WireKept, ChainNow DEF BioInv
<1>4. NothingLost'
  <2>1. CASE pc' = "over"
    BY <2>1 DEF NothingLost
  <2>2. CASE pc \in {"submit", "next"}
    BY <2>2 DEF BioInv, NothingLost
  <2>3. CASE \A p \in 1 .. req.pages : \A s \in 0 .. req.len[p] - 1 :
                 Cardinality(Copies(p, s)) = 1
    BY <2>3 DEF NothingLost, Copies
  <2> QED
    BY <2>1, <2>2, <2>3
<1> QED
  BY <1>1, <1>2, <1>3, <1>4 DEF BioInv

LEMMA GiveUpStep ==
    ASSUME BioInv, NextBlockFails \/ AddPageFails
    PROVE  BioInv'
<1>1. /\ pc \in {"block", "page"} /\ pc' = "over" /\ EndOrig(TRUE) /\ failed' = TRUE
      /\ UNCHANGED <<req, bmap, blockVars, pageVars, new_bio, cur, headVars, wire>>
      /\ \/ list' = list
         \/ list' = Append(list, new_bio) /\ (count > 0 \/ pc = "page")
  BY Zenon DEF NextBlockFails, AddPageFails, GiveUp
<1>2. list' # list => /\ list' = Append(list, new_bio)
                      /\ new_bio.st = "new" /\ new_bio # NULL
  BY <1>1 DEF BioInv, NewInv, DataType, NULL
<1>3. Grows /\ ChainType'
  BY <1>1, <1>2, Chained DEF BioInv, ChainType, Grows
<1>4. ChainInv'
  BY <1>1, <1>3, ChainGiveUp DEF BioInv
<1>5. MidStays
  BY <1>1, <1>2, <1>3, MidSame, MidChained DEF BioInv
<1> QED
  BY <1>1, <1>3, <1>4, <1>5, DataOver

LEMMA LastBlockStep ==
    ASSUME BioInv, LastBlock
    PROVE  BioInv'
<1>1. /\ pc = "block" /\ total = 0 /\ pc' \in {"submit", "over"}
      /\ UNCHANGED <<req, bmap, blockVars, pageVars, wire>>
      /\ \/ UNCHANGED <<list, new_bio>>
         \/ count > 0 /\ list' = Append(list, new_bio) /\ new_bio' = NULL
  BY Zenon DEF LastBlock
<1>2. count > 0 => new_bio # NULL
  BY <1>1 DEF BioInv, NewInv, DataType, NULL
<1>3. NULL \in Bio
  BY DEF NULL, Bio
<1>4. ChainType'
  BY <1>1, <1>3, Chained DEF BioInv, ChainType
<1>5. MidStays
  BY <1>1, <1>2, <1>4, MidSame, MidChained DEF BioInv
<1>6. ChainInv'
  BY ChainLast DEF BioInv, DataType
<1>7. \A p \in 1 .. req.pages : \A s \in 0 .. req.len[p] - 1 : Cardinality(Copies(p, s)) = 1
  BY <1>1, AllCovered DEF BioInv
<1> QED
  BY <1>1, <1>4, <1>5, <1>6, <1>7, DataOver

\* The state of one bio of the chain changes.
LEMMA MarkStep ==
    ASSUME BioInv, NEW j \in Places,
           NEW x \in {"none", "new", "sent", "counted", "last", "done"},
           list' = [list EXCEPT ![j].st = x], new_bio' = new_bio
    PROVE  ChainType' /\ MidStays
<1>1. /\ list' \in Seq(Bio) /\ Len(list') = Len(list) /\ Places' = Places
      /\ list'[j].mid = list[j].mid /\ \A i \in Places \ {j} : list'[i] = list[i]
  BY Zenon, Marked DEF BioInv
<1>2. ChainType'
  BY <1>1 DEF BioInv, ChainType
<1>3. \A i \in Places : list'[i].mid = list[i].mid
  BY <1>1
<1> QED
  BY <1>1, <1>2, <1>3, MidMarked DEF BioInv

LEMMA SubmitStep ==
    ASSUME BioInv, SubmitBio \/ NextBio
    PROVE  BioInv'
<1>1. /\ pc \in {"submit", "next"} /\ pc' \in {"submit", "next", "over"}
      /\ UNCHANGED <<req, bmap, blockVars, pageVars, new_bio, wire>>
      /\ list' = list \/ (pc = "submit" /\ list' = [list EXCEPT ![cur].st = "sent"])
  BY Zenon DEF SubmitBio, NextBio
<1>2. pc = "submit" => cur \in Places
  BY DEF BioInv, ChainInv, SentInv
<1>3. ChainType' /\ MidStays
  <2>1. CASE list' = list
    BY <1>1, <2>1, MidSame DEF BioInv, ChainType
  <2>2. CASE list' = [list EXCEPT ![cur].st = "sent"] /\ pc = "submit"
    BY Zenon, <1>1, <1>2, <2>2, MarkStep
  <2> QED
    BY <1>1, <2>1, <2>2
<1>4. ChainInv'
  BY ChainSubmit, ChainNext DEF BioInv
<1> QED
  BY <1>1, <1>3, <1>4, DataOver

LEMMA EndStep ==
    ASSUME BioInv, NEW j \in Places, EndBio(j)
    PROVE  BioInv'
<1>1. /\ UNCHANGED <<req, bmap, pc, blockVars, pageVars, new_bio, wire>>
      /\ list[j].st \in {"sent", "counted", "last"}
      /\ \E x \in {"counted", "last", "done"} : list' = [list EXCEPT ![j].st = x]
  BY Zenon DEF EndBio, EndCount, EndTest, FreeHead
<1>2. ChainType' /\ MidStays
  BY Zenon, <1>1, MarkStep
<1>3. ChainInv'
  BY ChainCount, ChainTest, ChainFree DEF BioInv, EndBio
<1>4. pc \in {"submit", "next", "over"}
  BY <1>1, Underway DEF BioInv
<1> QED
  BY <1>1, <1>2, <1>3, <1>4, DataOver

LEMMA StillStep ==
    ASSUME BioInv, BlockDone \/ UNCHANGED vars
    PROVE  BioInv'
<1>1. /\ UNCHANGED <<req, bmap, blockVars, pageVars, new_bio, list, cur, headVars,
                     endVars, wire, failed>>
  BY Zenon DEF BlockDone, vars
<1>2. UNCHANGED <<total, logical, phys, next, remaining, count, page, off, len,
                  nr_done, error, lock, freed, ended, result>>
  BY <1>1 DEF blockVars, pageVars, headVars, endVars
<1>3. pc' = pc \/ (pc = "page" /\ pc' = "block" /\ remaining = 0)
  BY DEF BlockDone, vars
<1>4. ReqInv' /\ ChainType' /\ DataType' /\ Chain' = Chain /\ Places' = Places
  BY <1>1, <1>2 DEF BioInv, ReqInv, ChainType, DataType, Chain, Places
<1>5. WireInv'
  BY <1>1, <1>4 DEF BioInv, WireInv, HostSector
<1>6. \A q, s : Reached(q, s)' = Reached(q, s) /\ Copies(q, s)' = Copies(q, s)
  BY <1>1, <1>2 DEF Reached, Copies
<1>7. CoverInv' /\ NothingLost'
  BY Zenon, <1>1, <1>3, <1>6 DEF BioInv, CoverInv, NothingLost
<1>8. NewInv'
  BY <1>1, <1>2, <1>3 DEF BioInv, NewInv
<1>9. PlaceInv'
  <2>1. Done' = Done /\ End' = End /\ \A x : HostSector(x)' = HostSector(x)
    BY Zenon, <1>1, <1>2 DEF Done, End, HostSector
  <2> QED
    BY <1>1, <1>2, <1>3, <2>1 DEF BioInv, PlaceInv, HostSector
<1>10. ChainInv'
  <2>1. CASE pc' = pc
    <3>1. Counted' = Counted
      BY <1>1, <1>4 DEF Counted
    <3> QED
      BY Zenon, <1>1, <1>2, <1>4, <2>1, <3>1
      DEF BioInv, ChainInv, HeadType, Unsent, SentInv, EndInv
  <2>2. CASE pc = "page" /\ pc' = "block"
    BY <1>1, <2>2, ChainBuild DEF BioInv, Grows
  <2> QED
    BY <1>3, <2>1, <2>2
<1> QED
  BY <1>4, <1>5, <1>7, <1>8, <1>9, <1>10 DEF BioInv

LEMMA BioInvariant == Spec => []BioInv
<1>1. Init => BioInv
  BY InitBio
<1>2. BioInv /\ [Next]_vars => BioInv'
  <2> SUFFICES ASSUME BioInv, [Next]_vars PROVE BioInv'
    OBVIOUS
  <2>1. CASE Task
    BY <2>1, NextBlockStep, GiveUpStep, AddPageStep, RefusedStep, StillStep, LastBlockStep,
       SubmitStep
    DEF Task
  <2>2. CASE \E j \in 1 .. Len(list) : EndBio(j)
    BY <2>2, EndStep DEF Places
  <2> QED
    BY <2>1, <2>2, StillStep DEF Next
<1> QED
  BY <1>1, <1>2, PTL DEF Spec

-----------------------------------------------------------------------------
(* The theorems.                                                            *)

\* Every variable of redirect_bio and lo_end_bio keeps its type; in particular
\* the page index stays within the guest's bio.
THEOREM RedirectTyped == Spec => []TypeOK
<1>1. BioInv => TypeOK
  <2> SUFFICES ASSUME BioInv PROVE TypeOK
    OBVIOUS
  <2>1. freed \subseteq {"list", "head"}
    <3>1. pc \in {"submit", "next"} => cur # 0
      BY DEF BioInv, ChainInv, SentInv, Places
    <3> QED
      BY <3>1 DEF BioInv, ChainInv, HeadType, Unsent, EndInv
  <2> QED
    BY <2>1 DEF BioInv, ChainInv, HeadType, DataType, TypeOK
<1> QED
  BY <1>1, BioInvariant, PTL

\* Every sector of every page goes to the host sector that backs it, except in
\* a bio begun in the middle of a block after a refused bio_add_page.
THEOREM DataGoesInPlace == Spec => []DataInPlace
<1>1. BioInv => DataInPlace
  BY Zenon DEF BioInv, WireInv, DataInPlace
<1> QED
  BY <1>1, BioInvariant, PTL

\* The chain that redirect_bio submits holds every sector exactly once.
THEOREM TransferIsWhole == Spec => []NothingLost
<1>1. BioInv => NothingLost
  BY DEF BioInv
<1> QED
  BY <1>1, BioInvariant, PTL

\* Completions free neither what the submit loop reads nor what another
\* completion reads.
THEOREM ChainOutlivesUse == Spec => []NoUseAfterFree
<1>1. BioInv => NoUseAfterFree
  <2> SUFFICES ASSUME BioInv PROVE NoUseAfterFree
    OBVIOUS
  <2>1. ASSUME pc \in {"submit", "next"} PROVE freed = {} /\ ended = 0
    <3>1. cur \in Places /\ cur # 0 /\ EndInv
      BY <2>1 DEF BioInv, ChainInv, SentInv, Places
    <3>2. PICK j \in Places : list[j].st \notin {"last", "done"}
      <4>1. CASE pc = "submit"
        BY <3>1, <4>1 DEF BioInv, ChainInv, SentInv
      <4>2. CASE pc = "next"
        <5>1. cur # Len(list) /\ Len(list) \in Nat
          BY <4>2, ChainShape DEF BioInv, ChainInv, SentInv
        <5>2. cur + 1 \in Places /\ cur + 1 > cur
          BY <3>1, <5>1 DEF Places
        <5> QED
          BY <3>1, <5>2 DEF BioInv, ChainInv, SentInv
      <4> QED
        BY <2>1, <4>1, <4>2
    <3> QED
      BY <3>1, <3>2 DEF EndInv
  <2>2. ASSUME NEW j \in 1 .. Len(list), list[j].st \in {"sent", "counted"}
        PROVE  freed = {}
    <3>1. EndInv
      BY <2>2, Underway DEF BioInv, Places
    <3> QED
      BY <2>2, <3>1 DEF EndInv, Places
  <2> QED
    BY <2>1, <2>2 DEF NoUseAfterFree
<1> QED
  BY <1>1, BioInvariant, PTL

\* bio_endio is called once for the guest's bio, with the right result, and
\* the memory of a chain that was submitted is given back.
THEOREM BioEndedOnce == Spec => []OrigEndedOnce
<1>1. BioInv => OrigEndedOnce
  <2> SUFFICES ASSUME BioInv PROVE OrigEndedOnce
    OBVIOUS
  <2>1. ended <= 1
    <3>1. cur # 0 => ended \in {0, 1}
      BY DEF BioInv, ChainInv, EndInv
    <3>2. cur = 0 => ended \in {0, 1}
      BY DEF BioInv, ChainInv, HeadType, SentInv, Places
    <3> QED
      BY <3>1, <3>2
  <2>2. ASSUME Quiet
        PROVE  ended = 1 /\ result = failed /\ freed = IF cur > 0 THEN {"list", "head"} ELSE {}
    <3>1. pc = "over" /\ \A j \in Places : list[j].st \in {"new", "done"}
      BY <2>2 DEF Quiet, Places
    <3>2. CASE cur = 0
      BY <3>1, <3>2 DEF BioInv, ChainInv, Unsent
    <3>3. CASE cur # 0
      <4>1. cur > 0 /\ cur = Len(list) /\ EndInv
        BY <3>1, <3>3 DEF BioInv, ChainInv, HeadType, SentInv
      <4>2. \A j \in Places : list[j].st = "done"
        BY <3>1, <3>3, <4>1 DEF BioInv, ChainInv, SentInv, Places
      <4> QED
        BY <4>1, <4>2 DEF EndInv
    <3> QED
      BY <3>2, <3>3
  <2> QED
    BY <2>1, <2>2 DEF OrigEndedOnce
<1> QED
  BY <1>1, BioInvariant, PTL
=============================================================================
