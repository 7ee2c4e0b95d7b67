-------------------------- MODULE UiEditorsProofs ---------------------------
(***************************************************************************)
(* Proofs about the notebook, for any number of paragraphs, calls, runs    *)
(* and savings: the types, and that no answer puts a paragraph into the    *)
(* place of another one.  And about the diagram of a transformation, for   *)
(* any number of steps and transitions: the types, that the graph shows    *)
(* the entity, and that a deletion takes nothing else away.                *)
(***************************************************************************)
EXTENDS UiEditors, SequenceTheorems, FiniteSetTheorems, TLAPS

(* A list of distinct paragraphs. *)
List(list) == list \in Kept /\ Distinct(list)

(* The list that a call has captured is one of distinct paragraphs; an     *)
(* answer to a run or a poll is the paragraph that was at the call's index *)
(* in it, and an answer to another call is such a list.                    *)
CallFits(c) ==
    /\ c \in Asking
    /\ Distinct(c.list) /\ Distinct(c.answer)
    /\ c.kind \in {"run", "poll"} =>
          /\ c.index \in DOMAIN c.list
          /\ c.answer # <<>> => c.answer[1].id = c.list[c.index].id
    /\ c.kind = "run" => c.run # 0

CallsFit == \A c \in calls : CallFits(c)

NotebookInv == NotebookTypeOK /\ CallsFit /\ ParagraphsAreDistinct

-----------------------------------------------------------------------------
(* Lists of paragraphs.                                                    *)

LEMMA CellOfList ==
  ASSUME NEW list \in Kept, NEW i \in DOMAIN list
  PROVE  list[i] \in ParagraphRow /\ list[i].id \in Ids(list) /\ Ids(list) \subseteq Paragraph
<1>1. DOMAIN list = 1 .. Len(list)
  BY LenProperties DEF Kept
<1>2. \A j \in DOMAIN list : list[j] \in ParagraphRow
  BY <1>1, ElementOfSeq DEF Kept
<1>3. QED
  BY <1>2 DEF Ids, ParagraphRow

LEMMA IdsOfList == ASSUME NEW list \in Kept PROVE Ids(list) \subseteq Paragraph
  BY CellOfList DEF Ids

LEMMA OfIsInList ==
  ASSUME NEW list \in Kept, NEW p \in Ids(list)
  PROVE  Of(list, p) \in ParagraphRow /\ Of(list, p).id = p
<1>1. PICK i \in DOMAIN list : list[i].id = p
  BY DEF Ids
<1>2. (CHOOSE j \in DOMAIN list : list[j].id = p) \in {j \in DOMAIN list : list[j].id = p}
  BY <1>1
<1>3. QED
  BY <1>2, CellOfList DEF Of

(* One paragraph is replaced by another state of it.                       *)
LEMMA ReplacedList ==
  ASSUME NEW list, List(list), NEW i \in DOMAIN list,
         NEW cell \in ParagraphRow, cell.id = list[i].id
  PROVE  List([list EXCEPT ![i] = cell])
<1> DEFINE new == [list EXCEPT ![i] = cell]
<1>1. list \in Seq(ParagraphRow) /\ DOMAIN list = 1 .. Len(list)
  BY LenProperties DEF List, Kept
<1>2. new \in Seq(ParagraphRow) /\ DOMAIN new = DOMAIN list
  BY <1>1, ExceptSeq
<1>3. \A j \in DOMAIN list : new[j].id = list[j].id
  BY <1>1, ExceptSeq
<1> HIDE DEF new
<1>4. QED
  BY <1>2, <1>3 DEF List, Kept, Distinct

LEMMA ClearedList ==
  ASSUME NEW list, List(list), NEW i \in DOMAIN list
  PROVE  List([list EXCEPT ![i].result = 0])
<1>1. list[i] \in ParagraphRow
  BY CellOfList DEF List
<1>2. /\ [list[i] EXCEPT !.result = 0] \in ParagraphRow
      /\ [list[i] EXCEPT !.result = 0].id = list[i].id
  <2>1. 0 \in 0 .. MaxRuns
    BY NotebookAssumption
  <2>2. QED
    BY <1>1, <2>1 DEF ParagraphRow
<1>3. QED
  BY <1>2, ReplacedList

LEMMA BlankIsRow ==
  ASSUME NEW p \in Paragraph
  PROVE  Blank(p) \in ParagraphRow /\ Blank(p).id = p
  BY NotebookAssumption DEF Blank, ParagraphRow

LEMMA BlankedList ==
  ASSUME NEW list, List(list), NEW i \in DOMAIN list
  PROVE  List([list EXCEPT ![i] = Blank(@.id)])
<1>1. list[i] \in ParagraphRow
  BY CellOfList DEF List
<1>2. list[i].id \in Paragraph
  BY <1>1 DEF ParagraphRow
<1>3. QED
  BY <1>2, BlankIsRow, ReplacedList

(* A paragraph and the one below it change places.                         *)
LEMMA SwappedList ==
  ASSUME NEW list, List(list), NEW i \in DOMAIN list, i < Len(list)
  PROVE  List([list EXCEPT ![i] = list[i + 1], ![i + 1] = list[i]])
<1> DEFINE one == [list EXCEPT ![i] = list[i + 1]]
           new == [one EXCEPT ![i + 1] = list[i]]
<1>1. list \in Seq(ParagraphRow) /\ DOMAIN list = 1 .. Len(list) /\ Len(list) \in Nat
  BY LenProperties DEF List, Kept
<1>2. i \in 1 .. Len(list) /\ i + 1 \in 1 .. Len(list)
  BY <1>1
<1>3. list[i] \in ParagraphRow /\ list[i + 1] \in ParagraphRow
  BY <1>1, <1>2, ElementOfSeq
<1>4. /\ one \in Seq(ParagraphRow) /\ Len(one) = Len(list)
      /\ \A j \in 1 .. Len(list) : one[j] = IF j = i THEN list[i + 1] ELSE list[j]
  BY <1>1, <1>2, <1>3, ExceptSeq
<1> HIDE DEF one
<1>5. /\ new \in Seq(ParagraphRow) /\ Len(new) = Len(list)
      /\ \A j \in 1 .. Len(list) : new[j] = IF j = i + 1 THEN list[i] ELSE one[j]
  BY <1>2, <1>3, <1>4, ExceptSeq
<1> HIDE DEF new
<1>6. DOMAIN new = 1 .. Len(list)
  BY <1>5, LenProperties
<1>7. \A j, k \in 1 .. Len(list) : j # k => new[j].id # new[k].id
  BY <1>1, <1>2, <1>4, <1>5 DEF List, Distinct
<1>8. List(new)
  BY <1>5, <1>6, <1>7 DEF List, Kept, Distinct
<1>9. QED
  BY <1>8 DEF new, one

LEMMA RemovedList ==
  ASSUME NEW list, List(list), NEW i \in DOMAIN list
  PROVE  List(RemoveAt(list, i))
<1> DEFINE n == Len(list)
           front == SubSeq(list, 1, i - 1)
           end == SubSeq(list, i + 1, n)
           new == front \o end
<1>1. list \in Seq(ParagraphRow) /\ DOMAIN list = 1 .. n /\ n \in Nat /\ i \in 1 .. n
  BY LenProperties DEF List, Kept
<1>2. \A j \in 1 .. n : list[j] \in ParagraphRow
  BY <1>1, ElementOfSeq
<1>3. /\ front \in Seq(ParagraphRow) /\ Len(front) = i - 1
      /\ \A j \in 1 .. i - 1 : front[j] = list[j]
  BY <1>1, <1>2, SubSeqProperties
<1>4. /\ end \in Seq(ParagraphRow) /\ Len(end) = n - i
      /\ \A j \in 1 .. n - i : end[j] = list[i + j]
  <2>1. \A j \in i + 1 .. n : list[j] \in ParagraphRow
    BY <1>1, <1>2
  <2>2. /\ end \in Seq(ParagraphRow) /\ Len(end) = IF i + 1 <= n THEN n - (i + 1) + 1 ELSE 0
        /\ \A j \in 1 .. n - (i + 1) + 1 : end[j] = list[i + 1 + j - 1]
    BY <1>1, <2>1, SubSeqProperties
  <2> HIDE DEF end
  <2>3. Len(end) = n - i /\ n - (i + 1) + 1 = n - i
    BY <1>1, <2>2
  <2>4. \A j \in 1 .. n - i : i + 1 + j - 1 = i + j
    BY <1>1
  <2>5. QED
    BY <2>2, <2>3, <2>4
<1> HIDE DEF front, end
<1>5. /\ new \in Seq(ParagraphRow) /\ Len(new) = n - 1
      /\ \A j \in 1 .. n - 1 : new[j] = IF j <= i - 1 THEN front[j] ELSE end[j - (i - 1)]
  <2>1. /\ new \in Seq(ParagraphRow) /\ Len(new) = Len(front) + Len(end)
        /\ \A j \in 1 .. Len(front) + Len(end) :
              new[j] = IF j <= Len(front) THEN front[j] ELSE end[j - Len(front)]
    BY <1>3, <1>4, ConcatProperties
  <2>2. Len(front) + Len(end) = n - 1
    BY <1>1, <1>3, <1>4
  <2> HIDE DEF new
  <2>3. QED
    BY <1>3, <2>1, <2>2
<1> HIDE DEF new
<1>6. \A j \in 1 .. n - 1 : new[j] = IF j < i THEN list[j] ELSE list[j + 1]
  <2> SUFFICES ASSUME NEW j \in 1 .. n - 1
               PROVE  new[j] = IF j < i THEN list[j] ELSE list[j + 1]
    OBVIOUS
  <2>1. CASE j < i
    <3>1. j \in 1 .. i - 1 /\ j <= i - 1
      BY <1>1, <2>1
    <3>2. QED
      BY <1>3, <1>5, <2>1, <3>1
  <2>2. CASE ~(j < i)
    <3>1. j - (i - 1) \in 1 .. n - i /\ i + (j - (i - 1)) = j + 1 /\ ~(j <= i - 1)
      BY <1>1, <2>2
    <3>2. QED
      BY <1>4, <1>5, <2>2, <3>1
  <2>3. QED
    BY <2>1, <2>2
<1>7. DOMAIN new = 1 .. n - 1
  BY <1>5, LenProperties
<1>8. \A j, k \in 1 .. n - 1 : j # k => new[j].id # new[k].id
  <2> SUFFICES ASSUME NEW j \in 1 .. n - 1, NEW k \in 1 .. n - 1, j < k
               PROVE  new[j].id # new[k].id
    BY <1>1
  <2>1. \A a, b \in 1 .. n : a # b => list[a].id # list[b].id
    BY <1>1 DEF List, Distinct
  <2>2. CASE k < i
    BY <1>1, <1>6, <2>1, <2>2
  <2>3. CASE j < i /\ ~(k < i)
    BY <1>1, <1>6, <2>1, <2>3
  <2>4. CASE ~(j < i)
    BY <1>1, <1>6, <2>1, <2>4
  <2>5. QED
    BY <1>1, <2>2, <2>3, <2>4
<1>9. List(new)
  BY <1>5, <1>7, <1>8 DEF List, Kept, Distinct
<1>10. QED
  BY <1>9 DEF new, front, end, RemoveAt

LEMMA InsertedList ==
  ASSUME NEW list, List(list), NEW i \in 1 .. Len(list) + 1,
         NEW cell \in ParagraphRow, cell.id \notin Ids(list)
  PROVE  List(InsertAt(list, i, cell))
<1> DEFINE n == Len(list)
           front == SubSeq(list, 1, i - 1)
           end == SubSeq(list, i, n)
           half == front \o <<cell>>
           new == half \o end
<1>1. list \in Seq(ParagraphRow) /\ DOMAIN list = 1 .. n /\ n \in Nat /\ i \in 1 .. n + 1
  BY LenProperties DEF List, Kept
<1>2. \A j \in 1 .. n : list[j] \in ParagraphRow
  BY <1>1, ElementOfSeq
<1>3. /\ front \in Seq(ParagraphRow) /\ Len(front) = i - 1
      /\ \A j \in 1 .. i - 1 : front[j] = list[j]
  <2>1. \A j \in 1 .. i - 1 : list[j] \in ParagraphRow
    BY <1>1, <1>2
  <2>2. /\ front \in Seq(ParagraphRow) /\ Len(front) = IF 1 <= i - 1 THEN i - 1 - 1 + 1 ELSE 0
        /\ \A j \in 1 .. i - 1 - 1 + 1 : front[j] = list[1 + j - 1]
    BY <1>1, <2>1, SubSeqProperties
  <2> HIDE DEF front
  <2>3. QED
    BY <1>1, <2>2
<1>4. /\ end \in Seq(ParagraphRow) /\ Len(end) = n - i + 1
      /\ \A j \in 1 .. n - i + 1 : end[j] = list[i + j - 1]
  <2>1. \A j \in i .. n : list[j] \in ParagraphRow
    BY <1>1, <1>2
  <2>2. /\ end \in Seq(ParagraphRow) /\ Len(end) = IF i <= n THEN n - i + 1 ELSE 0
        /\ \A j \in 1 .. n - i + 1 : end[j] = list[i + j - 1]
    BY <1>1, <2>1, SubSeqProperties
  <2> HIDE DEF end
  <2>3. QED
    BY <1>1, <2>2
<1> HIDE DEF front, end
<1>5. /\ half \in Seq(ParagraphRow) /\ Len(half) = i
      /\ \A j \in 1 .. i : half[j] = IF j < i THEN list[j] ELSE cell
  <2>1. <<cell>> \in Seq(ParagraphRow) /\ Len(<<cell>>) = 1 /\ <<cell>>[1] = cell
    OBVIOUS
  <2>2. /\ half \in Seq(ParagraphRow) /\ Len(half) = i - 1 + 1
        /\ \A j \in 1 .. i - 1 + 1 :
              half[j] = IF j <= i - 1 THEN front[j] ELSE <<cell>>[j - (i - 1)]
    BY <1>3, <2>1, ConcatProperties
  <2> HIDE DEF half
  <2>3. QED
    BY <1>1, <1>3, <2>1, <2>2
<1> HIDE DEF half
<1>6. /\ new \in Seq(ParagraphRow) /\ Len(new) = n + 1
      /\ \A j \in 1 .. n + 1 : new[j] = IF j <= i THEN half[j] ELSE end[j - i]
  <2>1. /\ new \in Seq(ParagraphRow) /\ Len(new) = i + (n - i + 1)
        /\ \A j \in 1 .. i + (n - i + 1) : new[j] = IF j <= i THEN half[j] ELSE end[j - i]
    BY <1>4, <1>5, ConcatProperties
  <2> HIDE DEF new
  <2>2. QED
    BY <1>1, <2>1
<1> HIDE DEF new
<1>7. \A j \in 1 .. n + 1 :
         new[j] = IF j < i THEN list[j] ELSE IF j = i THEN cell ELSE list[j - 1]
  <2> SUFFICES ASSUME NEW j \in 1 .. n + 1
               PROVE  new[j] = IF j < i THEN list[j] ELSE IF j = i THEN cell ELSE list[j - 1]
    OBVIOUS
  <2>1. CASE j <= i
    BY <1>1, <1>5, <1>6, <2>1
  <2>2. CASE ~(j <= i)
    <3>1. j - i \in 1 .. n - i + 1 /\ i + (j - i) - 1 = j - 1 /\ ~(j < i) /\ j # i
      BY <1>1, <2>2
    <3>2. QED
      BY <1>4, <1>6, <2>2, <3>1
  <2>3. QED
    BY <2>1, <2>2
<1>8. DOMAIN new = 1 .. n + 1
  BY <1>6, LenProperties
<1>9. \A j \in 1 .. n : list[j].id # cell.id
  BY <1>1 DEF Ids
<1>10. \A j, k \in 1 .. n + 1 : j # k => new[j].id # new[k].id
  <2> SUFFICES ASSUME NEW j \in 1 .. n + 1, NEW k \in 1 .. n + 1, j < k
               PROVE  new[j].id # new[k].id
    BY <1>1
  <2>1. \A a, b \in 1 .. n : a # b => list[a].id # list[b].id
    BY <1>1 DEF List, Distinct
  <2>2. CASE k < i
    BY <1>1, <1>7, <2>1, <2>2
  <2>3. CASE k = i
    BY <1>1, <1>7, <1>9, <2>3
  <2>4. CASE j < i /\ i < k
    BY <1>1, <1>7, <2>1, <2>4
  <2>5. CASE j = i
    BY <1>1, <1>7, <1>9, <2>5
  <2>6. CASE i < j
    BY <1>1, <1>7, <2>1, <2>6
  <2>7. QED
    BY <1>1, <2>2, <2>3, <2>4, <2>5, <2>6
<1>11. List(new)
  BY <1>6, <1>8, <1>10 DEF List, Kept, Distinct
<1>12. QED
  BY <1>11 DEF new, half, front, end, InsertAt

LEMMA PutList ==
  ASSUME NEW list, List(list), NEW cell \in ParagraphRow
  PROVE  List(Put(list, cell))
<1> DEFINE new == Put(list, cell)
<1>1. list \in Seq(ParagraphRow) /\ DOMAIN list = 1 .. Len(list) /\ Len(list) \in Nat
  BY LenProperties DEF List, Kept
<1>2. \A i \in DOMAIN list : list[i] \in ParagraphRow
  BY <1>1, ElementOfSeq
<1>3. /\ new \in [1 .. Len(list) -> ParagraphRow]
      /\ \A i \in DOMAIN list : new[i].id = list[i].id
  BY <1>1, <1>2 DEF Put
<1>4. new \in Seq(ParagraphRow) /\ DOMAIN new = DOMAIN list
  BY <1>1, <1>3
<1> HIDE DEF new
<1>5. QED
  BY <1>3, <1>4 DEF List, Kept, Distinct, new

-----------------------------------------------------------------------------
(* Calls.                                                                  *)

LEMMA EmptyList == List(<<>>)
  BY DEF List, Kept, Distinct

LEMMA SingleList ==
  ASSUME NEW cell \in ParagraphRow
  PROVE  List(<<cell>>) /\ <<cell>> # <<>> /\ <<cell>>[1] = cell
  BY DEF List, Kept, Distinct

LEMMA NewCallFits ==
  ASSUME NEW kind \in {"run", "poll", "save", "add"}, NEW list, List(list), NEW i \in Nat,
         NEW run \in 0 .. MaxRuns,
         kind \in {"run", "poll"} => i \in DOMAIN list,
         kind = "run" => run # 0
  PROVE  CallFits(CallOf(kind, list, i, run))
<1> DEFINE c == CallOf(kind, list, i, run)
<1>1. /\ c.kind = kind /\ c.list = list /\ c.index = i /\ c.run = run
      /\ c.answer = <<>> /\ c.here = FALSE
  BY DEF CallOf
<1>2. c \in Asking
  <2>1. list \in Kept
    BY DEF List
  <2>2. QED
    BY <2>1 DEF CallOf, Asking
<1>3. Distinct(c.list) /\ Distinct(c.answer)
  BY <1>1, EmptyList DEF List
<1> HIDE DEF c
<1>4. CallFits(c)
  BY <1>1, <1>2, <1>3 DEF CallFits
<1>5. QED
  BY <1>4 DEF c

LEMMA CallType ==
  ASSUME NEW c, CallFits(c)
  PROVE  /\ c.kind \in {"run", "poll", "save", "add"} /\ List(c.list) /\ c.index \in Nat
         /\ c.run \in 0 .. MaxRuns /\ List(c.answer) /\ c.here \in BOOLEAN
  BY EmptyList DEF CallFits, Asking, List

LEMMA AnsweredFits ==
  ASSUME NEW c, CallFits(c), NEW list, List(list),
         c.kind \in {"run", "poll"} /\ list # <<>> => list[1].id = c.list[c.index].id
  PROVE  CallFits([c EXCEPT !.answer = list, !.here = TRUE])
<1> DEFINE d == [c EXCEPT !.answer = list, !.here = TRUE]
<1>1. c \in Asking /\ list \in Kept
  BY DEF CallFits, List
<1>2. /\ d \in Asking
      /\ d.kind = c.kind /\ d.list = c.list /\ d.index = c.index /\ d.run = c.run
      /\ d.answer = list
  BY <1>1 DEF Asking
<1> HIDE DEF d
<1>3. CallFits(d)
  BY <1>2 DEF CallFits, List
<1>4. QED
  BY <1>3 DEF d

(* The set of calls stays finite, and its calls fit.                       *)
CallsInv == IsFiniteSet(calls) /\ CallsFit

LEMMA CallsChange ==
  ASSUME CallsInv, NEW c, NEW d, CallFits(d),
         \/ calls' = calls \cup {d}
         \/ calls' = (calls \ {c}) \cup {d}
         \/ calls' = calls \ {c}
         \/ calls' = calls
  PROVE  CallsInv'
<1>1. IsFiniteSet(calls) /\ IsFiniteSet(calls \ {c})
  BY FS_RemoveElement DEF CallsInv
<1>2. IsFiniteSet(calls')
  BY <1>1, FS_AddElement
<1>3. \A x \in calls' : x \in calls \/ x = d
  OBVIOUS
<1>4. \A x \in calls' : CallFits(x)
  BY <1>3 DEF CallsInv, CallsFit
<1>5. QED
  BY <1>2, <1>4 DEF CallsInv, CallsFit

-----------------------------------------------------------------------------
(* What the page shows.                                                    *)

PageOK == List(paras) /\ running \subseteq Paragraph /\ timer \in BOOLEAN
ServerOK == List(database) /\ jobs \in Seq([id : Paragraph, run : 1 .. MaxRuns])
CountsOK == runs \in 0 .. MaxRuns /\ saves \in 0 .. MaxSaves

(* The invariant, by what the actions change.                              *)
LEMMA NotebookParts == NotebookInv <=> PageOK /\ ServerOK /\ CountsOK /\ CallsInv
  BY DEF NotebookInv, NotebookTypeOK, ParagraphsAreDistinct, PageOK, ServerOK, CountsOK,
         CallsInv, CallsFit, CallFits, List

LEMMA NotebookPartsPrime ==
  NotebookInv' <=> PageOK' /\ ServerOK' /\ CountsOK' /\ CallsInv'
  BY DEF NotebookInv, NotebookTypeOK, ParagraphsAreDistinct, PageOK, ServerOK, CountsOK,
         CallsInv, CallsFit, CallFits, List

LEMMA WatchedType ==
  ASSUME NEW list \in Kept, NEW now
  PROVE  Watched(list, now) \subseteq Paragraph
  BY IdsOfList DEF Watched

LEMMA TimedType == ASSUME timer \in BOOLEAN, NEW list PROVE Timed(list) \in BOOLEAN
  BY DEF Timed

LEMMA PageShown ==
  ASSUME PageOK, NEW list, List(list), NEW now, NEW more \in SUBSET Paragraph,
         paras' = list, timer' \in {TRUE, FALSE, Timed(list)},
         running' = Watched(list, now) \cup more
  PROVE  PageOK'
<1>1. list \in Kept
  BY DEF List
<1>2. running' \subseteq Paragraph
  BY <1>1, WatchedType
<1>3. timer' \in BOOLEAN
  BY TimedType DEF PageOK
<1>4. List(paras)'
  BY DEF List, Kept, Distinct
<1>5. QED
  BY <1>2, <1>3, <1>4 DEF PageOK

LEMMA PageStays ==
  ASSUME PageOK, UNCHANGED <<paras, running>>, timer' \in BOOLEAN
  PROVE  PageOK'
  BY DEF PageOK, List, Kept, Distinct

LEMMA ShowKeeps == ASSUME PageOK, NEW list, List(list), Show(list) PROVE PageOK'
<1>1. paras' = list /\ timer' = Timed(list) /\ running' = Watched(list, running) \cup {}
  BY DEF Show
<1>2. {} \in SUBSET Paragraph /\ timer' \in {TRUE, FALSE, Timed(list)}
  BY <1>1
<1>3. QED
  BY ONLY PageOK, List(list), <1>1, <1>2, PageShown

LEMMA ServerStays == ASSUME ServerOK, UNCHANGED <<database, jobs>> PROVE ServerOK'
  BY DEF ServerOK, List, Kept, Distinct

LEMMA CountsStay == ASSUME CountsOK, UNCHANGED <<runs, saves>> PROVE CountsOK'
  BY DEF CountsOK

LEMMA CallsStay == ASSUME CallsInv, UNCHANGED calls PROVE CallsInv'
  BY DEF CallsInv, CallsFit

LEMMA SaveStep ==
  ASSUME CallsInv, CountsOK, NEW list, List(list), Save(list), UNCHANGED runs
  PROVE  CallsInv' /\ CountsOK'
<1>1. 0 \in 0 .. MaxRuns
  BY NotebookAssumption
<1>2. CallFits(CallOf("save", list, 0, 0))
  BY <1>1, NewCallFits
<1>3. CallsInv'
  BY <1>2, CallsChange DEF Save
<1>4. CountsOK'
  BY NotebookAssumption DEF Save, CountsOK
<1>5. QED
  BY <1>3, <1>4

-----------------------------------------------------------------------------
(* The steps.                                                              *)

LEMMA NotebookInvInit == NotebookInit => NotebookInv
<1> SUFFICES ASSUME NotebookInit PROVE NotebookInv
  OBVIOUS
<1>1. List(paras)
  <2>1. Opened \in Seq(Paragraph) /\ DOMAIN Opened = 1 .. Len(Opened) /\ Len(Opened) \in Nat
    BY NotebookAssumption, LenProperties
  <2>2. \A i \in DOMAIN Opened :
           Blank(Opened[i]) \in ParagraphRow /\ Blank(Opened[i]).id = Opened[i]
    BY <2>1, ElementOfSeq, BlankIsRow
  <2>3. paras \in [1 .. Len(Opened) -> ParagraphRow]
    BY <2>1, <2>2 DEF NotebookInit
  <2>4. paras \in Seq(ParagraphRow) /\ DOMAIN paras = DOMAIN Opened
    BY <2>1, <2>3
  <2>5. \A i, j \in DOMAIN Opened : i # j => Opened[i] # Opened[j]
    BY NotebookAssumption DEF IsInjective
  <2>6. \A i \in DOMAIN paras : paras[i].id = Opened[i]
    BY <2>2, <2>4 DEF NotebookInit
  <2>7. QED
    BY <2>4, <2>5, <2>6 DEF List, Kept, Distinct
<1>2. PageOK
  BY <1>1 DEF NotebookInit, PageOK
<1>3. ServerOK
  BY <1>1 DEF NotebookInit, ServerOK
<1>4. CountsOK
  BY NotebookAssumption DEF NotebookInit, CountsOK
<1>5. CallsInv
  BY FS_EmptySet DEF NotebookInit, CallsInv, CallsFit
<1>6. QED
  BY <1>2, <1>3, <1>4, <1>5, NotebookParts

LEMMA EditsKeep ==
  ASSUME NotebookInv, EditParagraph \/ EditAndSave \/ SavePage
  PROVE  NotebookInv'
<1>1. PageOK /\ ServerOK /\ CountsOK /\ CallsInv /\ List(paras)
  BY NotebookParts DEF PageOK
<1>2. CASE EditParagraph
  <2>1. PageOK'
    BY <1>1, <1>2, PageStays DEF EditParagraph
  <2>2. ServerOK' /\ CountsOK' /\ CallsInv'
    BY <1>1, <1>2, ServerStays, CountsStay, CallsStay DEF EditParagraph
  <2>3. QED
    BY <2>1, <2>2, NotebookPartsPrime
<1>3. CASE EditAndSave
  <2>1. PageOK'
    BY <1>1, <1>3, PageStays DEF EditAndSave, PageOK
  <2>2. ServerOK'
    BY <1>1, <1>3, ServerStays DEF EditAndSave
  <2>3. CallsInv' /\ CountsOK'
    BY <1>1, <1>3, SaveStep DEF EditAndSave
  <2>4. QED
    BY <2>1, <2>2, <2>3, NotebookPartsPrime
<1>4. CASE SavePage
  <2>1. PageOK'
    BY <1>1, <1>4, PageStays DEF SavePage, PageOK
  <2>2. ServerOK'
    BY <1>1, <1>4, ServerStays DEF SavePage
  <2>3. CallsInv' /\ CountsOK'
    BY <1>1, <1>4, SaveStep DEF SavePage
  <2>4. QED
    BY <2>1, <2>2, <2>3, NotebookPartsPrime
<1>5. QED
  BY <1>2, <1>3, <1>4

LEMMA ShownKeep ==
  ASSUME NotebookInv, NEW i \in DOMAIN paras, Clear(i) \/ LinkParagraph(i)
  PROVE  NotebookInv'
<1>1. PageOK /\ ServerOK /\ CountsOK /\ CallsInv /\ List(paras)
  BY NotebookParts DEF PageOK
<1>2. CASE Clear(i)
  <2>1. PageOK'
    BY <1>1, <1>2, ClearedList, ShowKeeps DEF Clear
  <2>2. ServerOK' /\ CountsOK' /\ CallsInv'
    BY <1>1, <1>2, ServerStays, CountsStay, CallsStay DEF Clear
  <2>3. QED
    BY <2>1, <2>2, NotebookPartsPrime
<1>3. CASE LinkParagraph(i)
  <2>1. PageOK'
    BY <1>1, <1>3, BlankedList, ShowKeeps DEF LinkParagraph
  <2>2. ServerOK' /\ CallsInv'
    BY <1>1, <1>3, ServerStays, CallsStay DEF LinkParagraph
  <2>3. CountsOK'
    BY <1>1, <1>3, NotebookAssumption DEF LinkParagraph, CountsOK
  <2>4. QED
    BY <2>1, <2>2, <2>3, NotebookPartsPrime
<1>4. QED
  BY <1>2, <1>3

LEMMA RunKeeps ==
  ASSUME NotebookInv, NEW i \in DOMAIN paras, Run(i)
  PROVE  NotebookInv'
<1>1. PageOK /\ ServerOK /\ CountsOK /\ CallsInv /\ List(paras)
  BY NotebookParts DEF PageOK
<1>2. paras[i].id \in Paragraph /\ i \in Nat
  <2>1. paras[i].id \in Ids(paras) /\ Ids(paras) \subseteq Paragraph
    BY <1>1, CellOfList DEF List
  <2>2. DOMAIN paras = 1 .. Len(paras) /\ Len(paras) \in Nat
    BY <1>1, LenProperties DEF List, Kept
  <2>3. QED
    BY <2>1, <2>2
<1>3. PageOK'
  <2> DEFINE list == [paras EXCEPT ![i].result = 0]
  <2>1. List(list)
    BY <1>1, ClearedList
  <2>2. /\ paras' = list /\ timer' = Timed(list)
        /\ running' = Watched(list, running) \cup {paras[i].id}
    BY DEF Run
  <2> HIDE DEF list
  <2>3. {paras[i].id} \in SUBSET Paragraph /\ timer' \in {TRUE, FALSE, Timed(list)}
    BY <1>2, <2>2
  <2>4. QED
    BY ONLY <1>1, <2>1, <2>2, <2>3, PageShown
<1>4. ServerOK'
  BY <1>1, ServerStays DEF Run
<1>5. CountsOK' /\ runs + 1 \in 0 .. MaxRuns /\ runs + 1 # 0
  BY <1>1, NotebookAssumption DEF Run, CountsOK
<1>6. CallFits(CallOf("run", paras, i, runs + 1))
  BY <1>1, <1>2, <1>5, NewCallFits
<1>7. CallsInv'
  BY <1>1, <1>6, CallsChange DEF Run
<1>8. QED
  BY <1>3, <1>4, <1>5, <1>7, NotebookPartsPrime

LEMMA RearrangeKeeps ==
  ASSUME NotebookInv, NEW list, List(list), Rearrange(list)
  PROVE  NotebookInv'
<1>1. PageOK /\ ServerOK /\ CountsOK /\ CallsInv
  BY NotebookParts
<1>2. Show(list) /\ Save(list) /\ UNCHANGED <<database, jobs, runs>>
  BY DEF Rearrange
<1>3. PageOK'
  BY <1>1, <1>2, ShowKeeps
<1>4. ServerOK' /\ CallsInv' /\ CountsOK'
  BY <1>1, <1>2, ServerStays, SaveStep
<1>5. QED
  BY <1>3, <1>4, NotebookPartsPrime

LEMMA OrderKeeps ==
  ASSUME NotebookInv, NEW i \in DOMAIN paras,
         Move(i) \/ DeleteParagraph(i) \/ UnlinkParagraph(i)
  PROVE  NotebookInv'
<1>1. List(paras)
  BY NotebookParts DEF PageOK
<1>2. CASE Move(i)
  BY <1>1, <1>2, SwappedList, RearrangeKeeps DEF Move
<1>3. CASE DeleteParagraph(i)
  BY <1>1, <1>3, RemovedList, RearrangeKeeps DEF DeleteParagraph
<1>4. CASE UnlinkParagraph(i)
  BY <1>1, <1>4, BlankedList, RearrangeKeeps DEF UnlinkParagraph
<1>5. QED
  BY <1>2, <1>3, <1>4

LEMMA AddKeeps ==
  ASSUME NotebookInv, NEW i \in 0 .. Len(paras), Add(i)
  PROVE  NotebookInv'
<1>1. PageOK /\ ServerOK /\ CountsOK /\ CallsInv /\ List(paras)
  BY NotebookParts DEF PageOK
<1>2. i \in Nat /\ 0 \in 0 .. MaxRuns
  BY NotebookAssumption
<1>3. CallFits(CallOf("add", paras, i, 0))
  BY <1>1, <1>2, NewCallFits
<1>4. CallsInv'
  BY <1>1, <1>3, CallsChange DEF Add
<1>5. PageOK' /\ ServerOK'
  BY <1>1, PageStays, ServerStays DEF Add, PageOK
<1>6. CountsOK'
  BY <1>1, NotebookAssumption DEF Add, CountsOK
<1>7. QED
  BY <1>4, <1>5, <1>6, NotebookPartsPrime

LEMMA TickKeeps == ASSUME NotebookInv, Tick PROVE NotebookInv'
<1> DEFINE asked == {j \in DOMAIN paras : paras[j].status = "pending"}
           poll == [j \in asked |-> CallOf("poll", paras, j, 0)]
           polls == {CallOf("poll", paras, j, 0) : j \in asked}
<1>1. PageOK /\ ServerOK /\ CountsOK /\ CallsInv /\ List(paras)
  BY NotebookParts DEF PageOK
<1>2. DOMAIN paras = 1 .. Len(paras) /\ Len(paras) \in Nat
  BY <1>1, LenProperties DEF List, Kept
<1>3. IsFiniteSet(polls)
  <2>1. IsFiniteSet(1 .. Len(paras)) /\ asked \in SUBSET (1 .. Len(paras))
    BY <1>2, FS_Interval
  <2>2. IsFiniteSet(asked)
    BY <2>1, FS_Subset
  <2>3. poll \in Surjection(asked, polls)
    BY DEF Surjection
  <2>4. QED
    BY <2>2, <2>3, FS_Surjection
<1>4. \A j \in asked : CallFits(CallOf("poll", paras, j, 0))
  <2>1. \A j \in asked : j \in Nat /\ j \in DOMAIN paras
    BY <1>2
  <2>2. 0 \in 0 .. MaxRuns
    BY NotebookAssumption
  <2>3. QED
    BY <1>1, <2>1, <2>2, NewCallFits
<1>5. calls' = calls \cup polls
  BY DEF Tick
<1>6. IsFiniteSet(calls')
  BY <1>1, <1>3, <1>5, FS_Union DEF CallsInv
<1>7. \A x \in calls' : CallFits(x)
  BY <1>1, <1>4, <1>5 DEF CallsInv, CallsFit
<1>8. CallsInv'
  BY <1>6, <1>7 DEF CallsInv, CallsFit
<1>9. PageOK' /\ ServerOK' /\ CountsOK'
  BY <1>1, PageStays, ServerStays, CountsStay DEF Tick, PageOK
<1>10. QED
  BY <1>8, <1>9, NotebookPartsPrime

(* The server answers a call with a list that fits it.                     *)
LEMMA AnsweredKeeps ==
  ASSUME CallsInv, NEW c \in calls, NEW list, List(list),
         c.kind \in {"run", "poll"} /\ list # <<>> => list[1].id = c.list[c.index].id,
         calls' = (calls \ {c}) \cup {[c EXCEPT !.answer = list, !.here = TRUE]}
  PROVE  CallsInv'
<1>1. CallFits(c)
  BY DEF CallsInv, CallsFit
<1>2. CallFits([c EXCEPT !.answer = list, !.here = TRUE])
  BY <1>1, AnsweredFits
<1>3. QED
  BY <1>2, CallsChange

LEMMA ServerKeeps ==
  ASSUME NEW list, List(list), database' = list,
         jobs' \in Seq([id : Paragraph, run : 1 .. MaxRuns])
  PROVE  ServerOK'
<1>1. List(database)'
  BY DEF List, Kept, Distinct
<1>2. QED
  BY <1>1 DEF ServerOK

LEMMA AskedId ==
  ASSUME NEW c, CallFits(c), c.kind \in {"run", "poll"}
  PROVE  c.list[c.index].id \in Paragraph
<1>1. c.list \in Kept /\ c.index \in DOMAIN c.list
  BY DEF CallFits, Asking
<1>2. QED
  BY <1>1, CellOfList

LEMMA ServeRunKeeps ==
  ASSUME NotebookInv, NEW c \in calls, ServeRun(c)
  PROVE  ServerOK' /\ CallsInv'
<1> DEFINE id == c.list[c.index].id
           waits == [id |-> id, status |-> "pending", result |-> 0]
           ended == [id |-> id, status |-> "done", result |-> c.run]
           job == [id |-> id, run |-> c.run]
<1>1. ServerOK /\ CallsInv /\ List(database) /\ CallFits(c)
  BY NotebookParts DEF ServerOK, CallsInv, CallsFit
<1>2. c.kind = "run" /\ id \in Paragraph /\ c.run \in 1 .. MaxRuns
  <2>1. c.kind = "run"
    BY DEF ServeRun
  <2>2. c.run \in 0 .. MaxRuns /\ c.run # 0
    BY <1>1, <2>1, CallType DEF CallFits
  <2>3. QED
    BY <1>1, <2>1, <2>2, AskedId, NotebookAssumption
<1>3. /\ waits \in ParagraphRow /\ ended \in ParagraphRow
      /\ waits.id = id /\ ended.id = id /\ job \in [id : Paragraph, run : 1 .. MaxRuns]
  BY <1>2, NotebookAssumption DEF ParagraphRow
<1>4. \/ /\ database' = Put(database, waits)
         /\ calls' = (calls \ {c}) \cup {[c EXCEPT !.answer = <<waits>>, !.here = TRUE]}
         /\ jobs' = Append(jobs, job)
      \/ /\ database' = Put(database, ended)
         /\ calls' = (calls \ {c}) \cup {[c EXCEPT !.answer = <<ended>>, !.here = TRUE]}
         /\ jobs' = jobs \/ jobs' = Append(jobs, job)
      \/ /\ calls' = (calls \ {c}) \cup {[c EXCEPT !.answer = <<>>, !.here = TRUE]}
         /\ UNCHANGED <<database, jobs>>
  BY DEF ServeRun, Answered
<1> HIDE DEF id, waits, ended, job
<1>5. List(<<waits>>) /\ List(<<ended>>) /\ <<waits>>[1] = waits /\ <<ended>>[1] = ended
  BY <1>3, SingleList
<1>6. List(Put(database, waits)) /\ List(Put(database, ended))
  BY <1>1, <1>3, PutList
<1>7. Append(jobs, job) \in Seq([id : Paragraph, run : 1 .. MaxRuns])
  BY <1>1, <1>3, AppendProperties DEF ServerOK
<1>8. ServerOK'
  BY <1>1, <1>4, <1>6, <1>7, ServerKeeps, ServerStays DEF ServerOK
<1>9. waits.id = c.list[c.index].id /\ ended.id = c.list[c.index].id
  BY <1>3 DEF id
<1>10. CallsInv'
  BY <1>1, <1>4, <1>5, <1>9, EmptyList, AnsweredKeeps
<1>11. QED
  BY <1>8, <1>10

LEMMA ServePollKeeps ==
  ASSUME NotebookInv, NEW c \in calls, ServePoll(c)
  PROVE  ServerOK' /\ CallsInv'
<1> DEFINE id == c.list[c.index].id
           answer == IF Known(c) THEN <<Of(database, id)>> ELSE <<>>
<1>1. ServerOK /\ CallsInv /\ List(database)
  BY NotebookParts DEF ServerOK
<1>2. calls' = (calls \ {c}) \cup {[c EXCEPT !.answer = answer, !.here = TRUE]}
  BY DEF ServePoll, Answered
<1>3. List(answer) /\ (answer # <<>> => answer[1].id = id)
  <2>1. CASE Known(c)
    <3>1. Of(database, id) \in ParagraphRow /\ Of(database, id).id = id
      BY <1>1, <2>1, OfIsInList DEF Known, List
    <3>2. List(<<Of(database, id)>>) /\ <<Of(database, id)>>[1].id = id
      BY <3>1, SingleList
    <3>3. QED
      BY <2>1, <3>2
  <2>2. CASE ~Known(c)
    BY <2>2, EmptyList
  <2>3. QED
    BY <2>1, <2>2
<1> HIDE DEF answer
<1>4. CallsInv'
  BY <1>1, <1>2, <1>3, AnsweredKeeps
<1>5. ServerOK'
  BY <1>1, ServerStays DEF ServePoll
<1>6. QED
  BY <1>4, <1>5

LEMMA ServeSaveKeeps ==
  ASSUME NotebookInv, NEW c \in calls, ServeSave(c)
  PROVE  ServerOK' /\ CallsInv'
<1>1. ServerOK /\ CallsInv /\ CallFits(c)
  BY NotebookParts DEF CallsInv, CallsFit
<1>2. List(c.list) /\ c.kind = "save"
  BY <1>1, CallType DEF ServeSave
<1>3. /\ calls' = (calls \ {c}) \cup {[c EXCEPT !.answer = c.list, !.here = TRUE]}
      /\ database' = c.list /\ jobs' = jobs
  BY DEF ServeSave, Answered
<1>4. CallsInv'
  BY <1>1, <1>2, <1>3, AnsweredKeeps
<1>5. ServerOK'
  BY <1>1, <1>2, <1>3, ServerKeeps DEF ServerOK
<1>6. QED
  BY <1>4, <1>5

LEMMA ServeAddKeeps ==
  ASSUME NotebookInv, NEW c \in calls, ServeAdd(c)
  PROVE  ServerOK' /\ CallsInv'
<1>1. ServerOK /\ CallsInv /\ List(database) /\ CallFits(c)
  BY NotebookParts DEF ServerOK, CallsInv, CallsFit
<1>2. c.kind = "add" /\ jobs' = jobs
  BY DEF ServeAdd
<1>3. CASE calls' = calls \ {c} /\ UNCHANGED database
  <2>1. CallsInv'
    BY <1>1, <1>3, CallsChange
  <2>2. ServerOK'
    BY <1>1, <1>2, <1>3, ServerStays
  <2>3. QED
    BY <2>1, <2>2
<1>4. CASE /\ c.index <= Len(database)
           /\ \E p \in Paragraph \ (Ids(database) \cup Ids(paras)) :
                  database' = InsertAt(database, c.index + 1, Blank(p))
           /\ Answered(c, database')
  <2>1. PICK p \in Paragraph \ (Ids(database) \cup Ids(paras)) :
               database' = InsertAt(database, c.index + 1, Blank(p))
    BY <1>4
  <2> DEFINE list == InsertAt(database, c.index + 1, Blank(p))
  <2>2. calls' = (calls \ {c}) \cup {[c EXCEPT !.answer = list, !.here = TRUE]}
    BY <1>4, <2>1 DEF Answered
  <2>3. List(list)
    <3>1. Len(database) \in Nat /\ c.index \in Nat
      BY <1>1, CallType, LenProperties DEF List, Kept
    <3>2. c.index + 1 \in 1 .. Len(database) + 1
      BY <1>4, <3>1
    <3>3. Blank(p) \in ParagraphRow /\ Blank(p).id \notin Ids(database)
      BY BlankIsRow
    <3>4. QED
      BY <1>1, <3>2, <3>3, InsertedList
  <2>4. database' = list
    BY <2>1
  <2> HIDE DEF list
  <2>5. CallsInv'
    BY <1>1, <1>2, <2>2, <2>3, AnsweredKeeps
  <2>6. ServerOK'
    BY <1>1, <1>2, <2>3, <2>4, ServerKeeps DEF ServerOK
  <2>7. QED
    BY <2>5, <2>6
<1>5. QED
  BY <1>3, <1>4 DEF ServeAdd

LEMMA ServeKeeps ==
  ASSUME NotebookInv, NEW c \in calls, Serve(c)
  PROVE  NotebookInv'
<1>1. PageOK /\ CountsOK
  BY NotebookParts
<1>2. PageOK' /\ CountsOK'
  BY <1>1, PageStays, CountsStay DEF Serve, PageOK
<1>3. ServerOK' /\ CallsInv'
  BY ServeRunKeeps, ServePollKeeps, ServeSaveKeeps, ServeAddKeeps DEF Serve
<1>4. QED
  BY <1>2, <1>3, NotebookPartsPrime

(* The session: whatever becomes of a job, the queue keeps its type and    *)
(* the database its paragraphs.                                            *)
LEMMA WorkKeeps == ASSUME NotebookInv, Work \/ WorkFails \/ LoseQueue PROVE NotebookInv'
<1> DEFINE row(status, result) == [id |-> Head(jobs).id, status |-> status, result |-> result]
           ended == row("done", Head(jobs).run)
           begun == row("pending", 0)
           JobList == Seq([id : Paragraph, run : 1 .. MaxRuns])
<1>1. PageOK /\ ServerOK /\ CountsOK /\ CallsInv /\ List(database)
  BY NotebookParts DEF ServerOK
<1>2. /\ Head(jobs) \in [id : Paragraph, run : 1 .. MaxRuns]
      /\ Tail(jobs) \in JobList /\ <<>> \in JobList
  <2>1. jobs \in JobList
    BY <1>1 DEF ServerOK
  <2>2. jobs # <<>>
    BY DEF Work, WorkFails, LoseQueue
  <2>3. <<>> \in JobList
    OBVIOUS
  <2>4. ASSUME NEW S, jobs \in Seq(S) PROVE Head(jobs) \in S /\ Tail(jobs) \in Seq(S)
    BY <2>2, <2>4, HeadTailProperties
  <2>5. QED
    BY <2>1, <2>3, <2>4
<1>3. ended \in ParagraphRow /\ begun \in ParagraphRow
  BY <1>2, NotebookAssumption DEF ParagraphRow
<1>4. /\ jobs' = Tail(jobs) \/ jobs' = <<>>
      /\ database' = database \/ database' = Put(database, ended) \/ database' = Put(database, begun)
  BY DEF Work, WorkFails, LoseQueue
<1> HIDE DEF ended, begun, JobList
<1>5. List(database')
  BY <1>1, <1>3, <1>4, PutList
<1>6. jobs' \in JobList
  BY <1>2, <1>4
<1>7. ServerOK'
  BY <1>5, <1>6, ServerKeeps DEF JobList
<1>8. PageOK' /\ CountsOK' /\ CallsInv'
  BY <1>1, PageStays, CountsStay, CallsStay DEF Work, WorkFails, LoseQueue, PageOK
<1>9. QED
  BY <1>7, <1>8, NotebookPartsPrime

-----------------------------------------------------------------------------
(* The answers.                                                            *)

(* The captured list with the answer in its place is one of distinct       *)
(* paragraphs: the answer is of the paragraph at that place.               *)
LEMMA AnswerInPlace ==
  ASSUME NEW c, CallFits(c), c.kind \in {"run", "poll"}, c.answer # <<>>
  PROVE  List([c.list EXCEPT ![c.index] = c.answer[1]])
<1>1. List(c.list) /\ List(c.answer)
  BY CallType
<1>2. c.index \in DOMAIN c.list /\ c.answer[1].id = c.list[c.index].id
  BY DEF CallFits
<1>3. c.answer[1] \in ParagraphRow
  <2>1. c.answer \in Seq(ParagraphRow) /\ Len(c.answer) \in Nat \ {0}
    BY <1>1, EmptySeq DEF List, Kept
  <2>2. QED
    BY <2>1, ElementOfSeq
<1>4. QED
  BY <1>1, <1>2, <1>3, ReplacedList

LEMMA TookKeeps ==
  ASSUME CallsInv, NEW c \in calls, Took(c)
  PROVE  CallsInv'
<1>1. CallFits(c)
  BY DEF CallsInv, CallsFit
<1>2. QED
  BY <1>1, CallsChange DEF Took

LEMMA RunAnsweredKeeps ==
  ASSUME NotebookInv, NEW c \in calls, RunAnswered(c)
  PROVE  PageOK' /\ CallsInv'
<1> DEFINE list == IF c.answer = <<>> THEN paras ELSE [c.list EXCEPT ![c.index] = c.answer[1]]
           now == IF c.answer # <<>> /\ c.answer[1].status = "pending" THEN running
                  ELSE running \ {c.list[c.index].id}
<1>1. PageOK /\ CallsInv /\ List(paras) /\ CallFits(c) /\ c.kind = "run"
  BY NotebookParts DEF PageOK, CallsInv, CallsFit, RunAnswered
<1>2. List(list)
  BY <1>1, AnswerInPlace
<1>3. paras' = list /\ timer' = Timed(list) /\ running' = Watched(list, now) \cup {}
  BY DEF RunAnswered
<1> HIDE DEF list, now
<1>4. {} \in SUBSET Paragraph /\ timer' \in {TRUE, FALSE, Timed(list)}
  BY <1>3
<1>5. PageOK'
  BY ONLY <1>1, <1>2, <1>3, <1>4, PageShown
<1>6. CallsInv'
  BY <1>1, TookKeeps DEF RunAnswered
<1>7. QED
  BY <1>5, <1>6

LEMMA PollAnsweredKeeps ==
  ASSUME NotebookInv, NEW c \in calls, PollAnswered(c)
  PROVE  PageOK' /\ CallsInv'
<1>1. PageOK /\ CallsInv /\ CallFits(c) /\ c.kind = "poll"
  BY NotebookParts DEF CallsInv, CallsFit, PollAnswered
<1>2. CASE c.answer # <<>> /\ c.answer[1].status = "done"
  <2> DEFINE list == [c.list EXCEPT ![c.index] = c.answer[1]]
  <2>1. List(list)
    BY <1>1, <1>2, AnswerInPlace
  <2>2. paras' = list /\ timer' = FALSE /\ running' = Watched(list, running) \cup {}
    BY <1>2 DEF PollAnswered
  <2> HIDE DEF list
  <2>3. {} \in SUBSET Paragraph /\ timer' \in {TRUE, FALSE, Timed(list)}
    BY <2>2
  <2>4. PageOK'
    BY ONLY <1>1, <2>1, <2>2, <2>3, PageShown
  <2>5. QED
    BY <1>1, <2>4, TookKeeps DEF PollAnswered
<1>3. CASE ~(c.answer # <<>> /\ c.answer[1].status = "done")
  BY <1>1, <1>3, PageStays, TookKeeps DEF PollAnswered, PageOK
<1>4. QED
  BY <1>2, <1>3

LEMMA SavedKeeps ==
  ASSUME NotebookInv, NEW c \in calls, Saved(c)
  PROVE  PageOK' /\ CallsInv'
<1>1. PageOK /\ CallsInv /\ CallFits(c)
  BY NotebookParts DEF CallsInv, CallsFit
<1>2. List(c.answer)
  BY <1>1, CallType
<1>3. QED
  BY <1>1, <1>2, ShowKeeps, TookKeeps DEF Saved

LEMMA AddedKeeps ==
  ASSUME NotebookInv, NEW c \in calls, Added(c)
  PROVE  PageOK' /\ CallsInv'
<1>1. PageOK /\ CallsInv /\ CallFits(c)
  BY NotebookParts DEF CallsInv, CallsFit
<1>2. List(c.answer)
  BY <1>1, CallType
<1>3. 0 \in 0 .. MaxRuns
  BY NotebookAssumption
<1>4. CallFits(CallOf("save", c.answer, 0, 0))
  BY <1>2, <1>3, NewCallFits
<1>5. CallsInv'
  BY <1>1, <1>4, CallsChange DEF Added
<1>6. QED
  BY <1>1, <1>2, <1>5, ShowKeeps DEF Added

LEMMA TakeAnswerKeeps ==
  ASSUME NotebookInv, NEW c \in calls, TakeAnswer(c)
  PROVE  NotebookInv'
<1>1. ServerOK /\ CountsOK
  BY NotebookParts
<1>2. ServerOK' /\ CountsOK'
  BY <1>1, ServerStays, CountsStay DEF TakeAnswer
<1>3. PageOK' /\ CallsInv'
  BY RunAnsweredKeeps, PollAnsweredKeeps, SavedKeeps, AddedKeeps DEF TakeAnswer
<1>4. QED
  BY <1>2, <1>3, NotebookPartsPrime

LEMMA NotebookInvNext == NotebookInv /\ [NotebookNext]_notebookVars => NotebookInv'
<1> SUFFICES ASSUME NotebookInv, [NotebookNext]_notebookVars PROVE NotebookInv'
  OBVIOUS
<1>1. CASE UNCHANGED notebookVars
  <2>1. PageOK /\ ServerOK /\ CountsOK /\ CallsInv
    BY NotebookParts
  <2>2. PageOK'
    BY <1>1, <2>1, PageStays DEF notebookVars, PageOK
  <2>3. ServerOK' /\ CountsOK' /\ CallsInv'
    BY <1>1, <2>1, ServerStays, CountsStay, CallsStay DEF notebookVars
  <2>4. QED
    BY <2>2, <2>3, NotebookPartsPrime
<1>2. CASE EditParagraph \/ EditAndSave \/ SavePage
  BY <1>2, EditsKeep
<1>3. ASSUME NEW i \in DOMAIN paras, EditText(i) PROVE NotebookInv'
  BY <1>3, EditsKeep DEF EditText
<1>4. ASSUME NEW i \in DOMAIN paras, Clear(i) \/ LinkParagraph(i) PROVE NotebookInv'
  BY <1>4, ShownKeep
<1>5. ASSUME NEW i \in DOMAIN paras, Run(i) PROVE NotebookInv'
  BY <1>5, RunKeeps
<1>6. ASSUME NEW i \in DOMAIN paras, Move(i) \/ DeleteParagraph(i) \/ UnlinkParagraph(i)
      PROVE  NotebookInv'
  BY <1>6, OrderKeeps
<1>7. ASSUME NEW i \in 0 .. Len(paras), Add(i) PROVE NotebookInv'
  BY <1>7, AddKeeps
<1>8. CASE Tick
  BY <1>8, TickKeeps
<1>9. CASE Work \/ WorkFails \/ LoseQueue
  BY <1>9, WorkKeeps
<1>10. ASSUME NEW c \in calls, Serve(c) PROVE NotebookInv'
  BY <1>10, ServeKeeps
<1>11. ASSUME NEW c \in calls, TakeAnswer(c) PROVE NotebookInv'
  BY <1>11, TakeAnswerKeeps
<1>12. QED
  BY <1>1, <1>2, <1>3, <1>4, <1>5, <1>6, <1>7, <1>8, <1>9, <1>10, <1>11 DEF NotebookNext

(* The inductive invariant of the notebook.                                *)
THEOREM NotebookInvariant == NotebookSpec => []NotebookInv
<1>1. NotebookSpec => []NotebookInv
  BY NotebookInvInit, NotebookInvNext, PTL DEF NotebookSpec
<1>2. QED
  BY <1>1

(* The lists of the page and of the server, the captured lists of the      *)
(* calls and the queue of the session keep their types.                    *)
THEOREM NotebookTypeCorrect == NotebookSpec => []NotebookTypeOK
<1>1. NotebookInv => NotebookTypeOK
  BY DEF NotebookInv
<1>2. QED
  BY <1>1, NotebookInvariant, PTL

(* No answer puts a paragraph into the place of another one: the page and  *)
(* the database have each paragraph once, however the answers to runs,     *)
(* polls, savings and additions cross what is moved and deleted meanwhile  *)
(* (NotebookView.js replaces a paragraph in the list it captured).         *)
THEOREM ParagraphsDistinctCorrect == NotebookSpec => []ParagraphsAreDistinct
<1>1. NotebookInv => ParagraphsAreDistinct
  BY DEF NotebookInv
<1>2. QED
  BY <1>1, NotebookInvariant, PTL

-----------------------------------------------------------------------------
(* The diagram.                                                            *)

(* A step or transition is what it was when it was made.                   *)
Agreeing(ls) == \A l, m \in ls : l.key = m.key => l = m

(* A link is drawn between the steps it connects.                          *)
Drawn(ls, fs) ==
    \A l \in ls : l.key \in DOMAIN fs =>
        {fs[l.key].start, fs[l.key].finish} = {l.start, l.finish}

(* Steps and the transitions between them.                                 *)
Lists(ns, ls) ==
    /\ ns \subseteq Step /\ ls \subseteq Link
    /\ IsFiniteSet(ns) /\ IsFiniteSet(ls)
    /\ \A l \in ls : {l.start, l.finish} \subseteq ns

Graph(cs, fs) ==
    /\ cs \in Some(Step, Cell) /\ fs \in Some(Transition, Flow)
    /\ IsFiniteSet(DOMAIN cs) /\ IsFiniteSet(DOMAIN fs)

GraphInv ==
    /\ DesignerTypeOK
    /\ Lists(nodes, links) /\ Lists(stored.nodes, stored.links)
    /\ Graph(cells, flows)
    /\ Agreeing(links \cup stored.links)
    /\ ~moved => Drawn(links \cup stored.links, flows)
    /\ GraphShowsEntity

LEMMA SomeDef ==
  ASSUME NEW S, NEW T, NEW f
  PROVE  f \in Some(S, T) <=> f \in [DOMAIN f -> T] /\ DOMAIN f \subseteq S
  BY DEF Some

(* Each key of a set of transitions is that of one of them.                *)
LEMMA KeysOf ==
  ASSUME NEW ls, IsFiniteSet(ls), Agreeing(ls)
  PROVE  IsFiniteSet(Keys(ls)) /\ Cardinality(Keys(ls)) = Cardinality(ls)
<1> DEFINE f == [l \in ls |-> l.key]
<1>1. f \in Bijection(ls, Keys(ls))
  <2>1. f \in [ls -> Keys(ls)]
    BY DEF Keys
  <2>2. \A l, m \in ls : f[l] = f[m] => l = m
    BY DEF Agreeing
  <2>3. \A k \in Keys(ls) : \E l \in ls : f[l] = k
    BY DEF Keys
  <2> HIDE DEF f
  <2>4. QED
    BY <2>1, <2>2, <2>3 DEF Bijection, Injection, Surjection, IsInjective
<1> HIDE DEF f
<1>2. QED
  BY <1>1, FS_Bijection DEF ExistsBijection

LEMMA RepairedCells ==
  ASSUME NEW cs \in Some(Step, Cell), NEW ids, NEW ks
  PROVE  /\ Repaired(cs, ids, ks) \in Some(Step, Cell)
         /\ DOMAIN Repaired(cs, ids, ks) = DOMAIN cs
<1> DEFINE new == Repaired(cs, ids, ks)
<1>1. cs \in [DOMAIN cs -> Cell] /\ DOMAIN cs \subseteq Step
  BY SomeDef
<1>2. DOMAIN new = DOMAIN cs
  BY DEF Repaired
<1>3. ASSUME NEW o \in DOMAIN cs PROVE new[o] \in Cell
  <2>1. cs[o] \in Cell
    BY <1>1
  <2>2. new[o] = [cs[o] EXCEPT !.current = @ \/ (cs[o].id /\ o \in ids \cap ks)]
    BY <1>3 DEF Repaired
  <2>3. (cs[o].current \/ (cs[o].id /\ o \in ids \cap ks)) \in BOOLEAN
    BY <2>1 DEF Cell
  <2>4. QED
    BY ONLY <2>1, <2>2, <2>3, Zenon DEF Cell
<1>4. new \in [DOMAIN new -> Cell]
  <2>1. new = [o \in DOMAIN new |-> new[o]]
    BY DEF Repaired
  <2> HIDE DEF new
  <2>2. QED
    BY <1>2, <1>3, <2>1
<1> HIDE DEF new
<1>5. new \in Some(Step, Cell)
  BY <1>1, <1>2, <1>4, SomeDef
<1>6. QED
  BY <1>2, <1>5 DEF new

LEMMA RepairedFlows ==
  ASSUME NEW fs \in Some(Transition, Flow), NEW ids, NEW ks
  PROVE  /\ Repaired(fs, ids, ks) \in Some(Transition, Flow)
         /\ DOMAIN Repaired(fs, ids, ks) = DOMAIN fs
         /\ \A t \in DOMAIN fs : /\ Repaired(fs, ids, ks)[t].start = fs[t].start
                                 /\ Repaired(fs, ids, ks)[t].finish = fs[t].finish
<1> DEFINE new == Repaired(fs, ids, ks)
<1>1. fs \in [DOMAIN fs -> Flow] /\ DOMAIN fs \subseteq Transition
  BY SomeDef
<1>2. DOMAIN new = DOMAIN fs
  BY DEF Repaired
<1>3. ASSUME NEW o \in DOMAIN fs
      PROVE  new[o] \in Flow /\ new[o].start = fs[o].start /\ new[o].finish = fs[o].finish
  <2>1. fs[o] \in Flow
    BY <1>1
  <2> DEFINE v == fs[o].current \/ (fs[o].id /\ o \in ids \cap ks)
  <2>2. new[o] = [fs[o] EXCEPT !.current = v]
    BY <1>3 DEF Repaired
  <2>3. v \in BOOLEAN
    BY <2>1 DEF Flow
  <2> HIDE DEF v, new
  <2>4. QED
    BY ONLY <2>1, <2>2, <2>3 DEF Flow
<1>4. new \in [DOMAIN new -> Flow]
  <2>1. new = [o \in DOMAIN new |-> new[o]]
    BY DEF Repaired
  <2> HIDE DEF new
  <2>2. QED
    BY <1>2, <1>3, <2>1
<1> HIDE DEF new
<1>5. new \in Some(Transition, Flow)
  BY <1>1, <1>2, <1>4, SomeDef
<1>6. QED
  BY <1>2, <1>3, <1>5 DEF new

(* A render with any entity and any cells.  The count of the cells and the *)
(* objects the cells hold are enough for the graph to be the entity's.     *)
LEMMA CheckKeeps ==
  ASSUME NEW front \in BOOLEAN, NEW ns, NEW ls, NEW ids, NEW cs, NEW fs,
         Lists(ns, ls), Lists(stored.nodes, stored.links), Graph(cs, fs),
         ids \subseteq Step \cup Transition,
         Agreeing(ls \cup stored.links),
         moved' \in BOOLEAN, rebuilding \in BOOLEAN,
         ~moved' => Drawn(ls \cup stored.links, fs),
         UNCHANGED stored,
         Check(front, ns, ls, ids, cs, fs)
  PROVE  GraphInv'
<1> DEFINE same == Cardinality(DOMAIN cs) + Cardinality(DOMAIN fs)
                     = Cardinality(ns) + Cardinality(ls)
           look == front /\ ~rebuilding
           rcs == IF look /\ same THEN Repaired(cs, ids, ns) ELSE cs
           rfs == IF look /\ same THEN Repaired(fs, ids, Keys(ls)) ELSE fs
<1>1. /\ nodes' = ns /\ links' = ls /\ persisted' = ids \cap (ns \cup Keys(ls))
      /\ cells' = rcs /\ flows' = rfs /\ active' = front
      /\ rebuilding' = (rebuilding \/ (look /\ ~(same /\ Consistent(ns, ls, rcs, rfs))))
  BY DEF Check
<1>2. /\ rcs \in Some(Step, Cell) /\ DOMAIN rcs = DOMAIN cs
      /\ rfs \in Some(Transition, Flow) /\ DOMAIN rfs = DOMAIN fs
      /\ \A t \in DOMAIN fs : rfs[t].start = fs[t].start /\ rfs[t].finish = fs[t].finish
  BY RepairedCells, RepairedFlows DEF Graph
<1> HIDE DEF rcs, rfs, same
<1>3. IsFiniteSet(ls) /\ Agreeing(ls)
  BY DEF Lists, Agreeing
<1>4. IsFiniteSet(Keys(ls)) /\ Cardinality(Keys(ls)) = Cardinality(ls)
  BY <1>3, KeysOf
<1>5. DesignerTypeOK'
  <2>1. nodes' \subseteq Step /\ links' \subseteq Link
    BY <1>1 DEF Lists
  <2>2. (Cardinality(Keys(links)) = Cardinality(links))'
    BY <1>1, <1>4 DEF Keys
  <2>3. persisted' \subseteq Step \cup Transition
    BY <1>1
  <2>4. (stored.nodes \subseteq Step /\ stored.links \subseteq Link)'
    BY DEF Lists
  <2>5. (cells \in Some(Step, Cell) /\ flows \in Some(Transition, Flow))'
    BY <1>1, <1>2 DEF Some, Cell, Flow
  <2>6. ({active, rebuilding, moved} \subseteq BOOLEAN)'
    BY <1>1
  <2>7. QED
    BY <2>1, <2>2, <2>3, <2>4, <2>5, <2>6 DEF DesignerTypeOK
<1>6. Lists(nodes, links)' /\ Lists(stored.nodes, stored.links)'
  BY <1>1 DEF Lists, Link
<1>7. Graph(cells, flows)'
  BY <1>1, <1>2 DEF Graph, Some, Cell, Flow
<1>8. Agreeing(links \cup stored.links)'
  BY <1>1 DEF Agreeing
<1>9. (~moved => Drawn(links \cup stored.links, flows))'
  BY <1>1, <1>2 DEF Drawn
<1>10. GraphShowsEntity'
  <2> SUFFICES ASSUME active', ~rebuilding'
               PROVE  /\ DOMAIN rcs = ns /\ DOMAIN rfs = Keys(ls)
                      /\ \A s \in DOMAIN rcs : rcs[s].current
                      /\ \A t \in DOMAIN rfs : rfs[t].current
                      /\ ~moved' => \A l \in ls :
                           {rfs[l.key].start, rfs[l.key].finish} = {l.start, l.finish}
    BY <1>1 DEF GraphShowsEntity, Keys
  <2>1. same /\ Consistent(ns, ls, rcs, rfs)
    BY <1>1
  <2>2. ns \subseteq DOMAIN rcs /\ Keys(ls) \subseteq DOMAIN rfs
    BY <2>1 DEF Consistent
  <2>3. /\ IsFiniteSet(DOMAIN rcs) /\ IsFiniteSet(DOMAIN rfs)
        /\ Cardinality(DOMAIN rcs) + Cardinality(DOMAIN rfs)
             = Cardinality(ns) + Cardinality(Keys(ls))
    BY <1>2, <1>4, <2>1 DEF Graph, same
  <2>4. /\ IsFiniteSet(ns) /\ Cardinality(ns) <= Cardinality(DOMAIN rcs)
        /\ Cardinality(ns) = Cardinality(DOMAIN rcs) => ns = DOMAIN rcs
    BY <2>2, <2>3, FS_Subset
  <2>5. /\ Cardinality(Keys(ls)) <= Cardinality(DOMAIN rfs)
        /\ Cardinality(Keys(ls)) = Cardinality(DOMAIN rfs) => Keys(ls) = DOMAIN rfs
    BY <2>2, <2>3, FS_Subset
  <2>6. /\ Cardinality(ns) \in Nat /\ Cardinality(DOMAIN rcs) \in Nat
        /\ Cardinality(Keys(ls)) \in Nat /\ Cardinality(DOMAIN rfs) \in Nat
    BY <1>4, <2>3, <2>4, FS_CardinalityType
  <2>7. DOMAIN rcs = ns /\ DOMAIN rfs = Keys(ls)
    BY <2>3, <2>4, <2>5, <2>6
  <2>8. /\ \A s \in DOMAIN rcs : rcs[s].current
        /\ \A t \in DOMAIN rfs : rfs[t].current
    BY <2>1, <2>7 DEF Consistent
  <2>9. ASSUME ~moved', NEW l \in ls
        PROVE  {rfs[l.key].start, rfs[l.key].finish} = {l.start, l.finish}
    <3>1. l.key \in DOMAIN fs
      BY <1>2, <2>7 DEF Keys
    <3>2. {fs[l.key].start, fs[l.key].finish} = {l.start, l.finish}
      BY <2>9, <3>1 DEF Drawn
    <3>3. QED
      BY <1>2, <3>1, <3>2
  <2>10. QED
    BY <2>7, <2>8, <2>9
<1>11. QED
  BY <1>5, <1>6, <1>7, <1>8, <1>9, <1>10 DEF GraphInv

-----------------------------------------------------------------------------
(* The actions of the diagram.                                             *)

LEMMA FreshIsSome ==
  ASSUME NEW S, NEW T, NEW f \in Some(S, T), IsFiniteSet(DOMAIN f), NEW o \in S, NEW v \in T
  PROVE  /\ Fresh(f, o, v) \in Some(S, T)
         /\ DOMAIN Fresh(f, o, v) = DOMAIN f \cup {o}
         /\ IsFiniteSet(DOMAIN Fresh(f, o, v))
<1> DEFINE new == Fresh(f, o, v)
<1>1. f \in [DOMAIN f -> T] /\ DOMAIN f \subseteq S
  BY SomeDef
<1>2. DOMAIN new = DOMAIN f \cup {o}
  BY DEF Fresh
<1>3. new \in [DOMAIN new -> T]
  BY <1>1 DEF Fresh
<1> HIDE DEF new
<1>4. IsFiniteSet(DOMAIN new)
  BY <1>2, FS_AddElement
<1>5. QED
  BY <1>1, <1>2, <1>3, <1>4, SomeDef DEF new

LEMMA WithoutIsSome ==
  ASSUME NEW S, NEW T, NEW f \in Some(S, T), IsFiniteSet(DOMAIN f), NEW U
  PROVE  /\ Without(f, U) \in Some(S, T)
         /\ DOMAIN Without(f, U) = DOMAIN f \ U
         /\ IsFiniteSet(DOMAIN Without(f, U))
         /\ \A x \in DOMAIN f \ U : Without(f, U)[x] = f[x]
<1> DEFINE new == Without(f, U)
<1>1. f \in [DOMAIN f -> T] /\ DOMAIN f \subseteq S
  BY SomeDef
<1>2. DOMAIN new = DOMAIN f \ U /\ \A x \in DOMAIN f \ U : new[x] = f[x]
  BY DEF Without
<1>3. new \in [DOMAIN new -> T]
  BY <1>1 DEF Without
<1> HIDE DEF new
<1>4. IsFiniteSet(DOMAIN new)
  BY <1>2, FS_Subset
<1>5. QED
  BY <1>1, <1>2, <1>3, <1>4, SomeDef DEF new

LEMMA NewIsFree ==
  ASSUME NEW S, NEW used, NEW o \in NewIn(S, used)
  PROVE  o \in S \ used
<1>1. ~(S \subseteq used) /\ o = CHOOSE x \in S \ used : TRUE
  BY DEF NewIn
<1>2. QED
  BY <1>1

LEMMA SplicedIsLess == ASSUME NEW S, NEW found, NEW gone, NEW X \in Spliced(S, found, gone)
                       PROVE  X \subseteq S
  BY DEF Spliced

(* What is left of the lists after a removal.                              *)
LEMMA ListsAfter ==
  ASSUME NEW ns, NEW ls, Lists(ns, ls), NEW ms \in SUBSET ls
  PROVE  /\ Lists(ns, ms)
         /\ \A os \in SUBSET ns : Lists(os, Attached(ms, os)) /\ Attached(ms, os) \subseteq ms
<1>1. IsFiniteSet(ms)
  BY FS_Subset DEF Lists
<1>2. Lists(ns, ms)
  BY <1>1 DEF Lists
<1>3. ASSUME NEW os \in SUBSET ns
      PROVE  Lists(os, Attached(ms, os)) /\ Attached(ms, os) \subseteq ms
  <2>1. Attached(ms, os) \subseteq ms
    BY DEF Attached
  <2>2. IsFiniteSet(Attached(ms, os)) /\ IsFiniteSet(os)
    BY <1>1, <2>1, FS_Subset DEF Lists
  <2>3. QED
    BY <2>1, <2>2 DEF Lists, Attached
<1>4. QED
  BY <1>2, <1>3

LEMMA DrawnAfter ==
  ASSUME NEW ls, NEW fs, Drawn(ls, fs), NEW ms \in SUBSET ls, NEW gs,
         DOMAIN gs \subseteq DOMAIN fs,
         \A t \in DOMAIN gs : gs[t].start = fs[t].start /\ gs[t].finish = fs[t].finish
  PROVE  Drawn(ms, gs)
  BY DEF Drawn

(* A gesture is made in a graph that is the entity's.                      *)
LEMMA GraphOfGesture ==
  ASSUME GraphInv, InGraph
  PROVE  /\ DOMAIN cells = nodes /\ DOMAIN flows = Keys(links)
         /\ \A s \in DOMAIN cells : cells[s].current
         /\ \A t \in DOMAIN flows : flows[t].current
  BY DEF GraphInv, GraphShowsEntity, InGraph

LEMMA GraphFacts ==
  ASSUME GraphInv
  PROVE  /\ Lists(nodes, links) /\ Lists(stored.nodes, stored.links) /\ Graph(cells, flows)
         /\ Agreeing(links \cup stored.links) /\ Agreeing(links)
         /\ ~moved => Drawn(links \cup stored.links, flows)
         /\ persisted \subseteq Step \cup Transition
         /\ active \in BOOLEAN /\ rebuilding \in BOOLEAN /\ moved \in BOOLEAN
  BY DEF GraphInv, DesignerTypeOK, Agreeing

LEMMA CellCreatedKeeps == ASSUME GraphInv, CellCreated PROVE GraphInv'
<1>1. PICK s \in NewIn(Step, UsedSteps) :
        /\ Check(active, nodes \cup {s}, links, persisted,
                 Fresh(cells, s, [current |-> TRUE, id |-> FALSE]), flows)
        /\ UNCHANGED <<stored, moved>>
  BY DEF CellCreated
<1>2. s \in Step
  BY NewIsFree
<1>3. Lists(nodes \cup {s}, links)
  BY <1>2, GraphFacts, FS_AddElement DEF Lists
<1>4. Graph(Fresh(cells, s, [current |-> TRUE, id |-> FALSE]), flows)
  <2>1. [current |-> TRUE, id |-> FALSE] \in Cell
    BY DEF Cell
  <2>2. /\ cells \in Some(Step, Cell) /\ IsFiniteSet(DOMAIN cells)
        /\ flows \in Some(Transition, Flow) /\ IsFiniteSet(DOMAIN flows)
    BY GraphFacts DEF Graph
  <2> DEFINE new == Fresh(cells, s, [current |-> TRUE, id |-> FALSE])
  <2>3. new \in Some(Step, Cell) /\ IsFiniteSet(DOMAIN new)
    BY ONLY <1>2, <2>1, <2>2, FreshIsSome
  <2> HIDE DEF new
  <2>4. Graph(new, flows)
    BY <2>2, <2>3 DEF Graph
  <2>5. QED
    BY <2>4 DEF new
<1>5. QED
  BY <1>1, <1>3, <1>4, GraphFacts, CheckKeeps

LEMMA LinkConnectedKeeps ==
  ASSUME GraphInv, NEW s \in Step, NEW f \in Step, LinkConnected(s, f)
  PROVE  GraphInv'
<1> DEFINE link(t) == [key |-> t, start |-> s, finish |-> f]
           flow == [current |-> TRUE, id |-> FALSE, start |-> s, finish |-> f]
<1>1. PICK t \in NewIn(Transition, UsedLinks) :
        /\ InGraph /\ {s, f} \subseteq DOMAIN cells
        /\ Check(active, nodes, links \cup {link(t)}, persisted, cells, Fresh(flows, t, flow))
        /\ UNCHANGED <<stored, moved>>
  BY DEF LinkConnected
<1>2. t \in Transition /\ t \notin Keys(links) /\ t \notin Keys(stored.links)
  BY NewIsFree DEF UsedLinks
<1>3. link(t) \in Link /\ link(t).key = t /\ link(t).start = s /\ link(t).finish = f
  BY <1>2 DEF Link
<1>4. Lists(nodes, links \cup {link(t)})
  <2>1. s \in nodes /\ f \in nodes
    BY <1>1, GraphOfGesture
  <2> HIDE DEF link
  <2>2. QED
    BY <1>3, <2>1, GraphFacts, FS_AddElement DEF Lists
<1>5. flow \in Flow /\ flow.start = s /\ flow.finish = f
  BY DEF Flow
<1> HIDE DEF link, flow
<1>6. Graph(cells, Fresh(flows, t, flow)) /\ DOMAIN Fresh(flows, t, flow) = DOMAIN flows \cup {t}
  <2>1. /\ cells \in Some(Step, Cell) /\ IsFiniteSet(DOMAIN cells)
        /\ flows \in Some(Transition, Flow) /\ IsFiniteSet(DOMAIN flows)
    BY GraphFacts DEF Graph
  <2> DEFINE new == Fresh(flows, t, flow)
  <2>2. new \in Some(Transition, Flow) /\ IsFiniteSet(DOMAIN new)
    BY ONLY <1>2, <1>5, <2>1, FreshIsSome
  <2>3. DOMAIN new = DOMAIN flows \cup {t}
    BY DEF Fresh
  <2> HIDE DEF new
  <2>4. Graph(cells, new)
    BY <2>1, <2>2 DEF Graph
  <2>5. QED
    BY <2>3, <2>4 DEF new
<1>7. Agreeing(links \cup {link(t)} \cup stored.links)
  <2>1. \A l \in links \cup stored.links : l.key # t
    BY <1>2 DEF Keys
  <2>2. QED
    BY <1>3, <2>1, GraphFacts DEF Agreeing
<1>8. ~moved' => Drawn(links \cup {link(t)} \cup stored.links, Fresh(flows, t, flow))
  <2> SUFFICES ASSUME ~moved, NEW l \in links \cup {link(t)} \cup stored.links,
                      l.key \in DOMAIN flows \cup {t}
               PROVE  {Fresh(flows, t, flow)[l.key].start, Fresh(flows, t, flow)[l.key].finish}
                        = {l.start, l.finish}
    BY <1>1, <1>6 DEF Drawn
  <2>1. CASE l = link(t)
    BY <1>3, <1>5, <2>1 DEF Fresh
  <2>2. CASE l \in links \cup stored.links
    <3>1. l.key # t /\ l.key \in DOMAIN flows
      BY <1>2, <2>2 DEF Keys
    <3>2. {flows[l.key].start, flows[l.key].finish} = {l.start, l.finish}
      BY <2>2, <3>1, GraphFacts DEF Drawn
    <3>3. Fresh(flows, t, flow)[l.key] = flows[l.key]
      BY <3>1 DEF Fresh
    <3>4. QED
      BY <3>2, <3>3
  <2>3. QED
    BY <2>1, <2>2
<1>9. moved' \in BOOLEAN /\ UNCHANGED stored
  BY <1>1, GraphFacts
<1>10. Lists(stored.nodes, stored.links)
  BY GraphFacts
<1>11. QED
  BY <1>1, <1>4, <1>6, <1>7, <1>8, <1>9, <1>10, GraphFacts, CheckKeeps

LEMMA GraphWithout ==
  ASSUME NEW cs, NEW fs, Graph(cs, fs), NEW S, NEW T
  PROVE  Graph(Without(cs, S), Without(fs, T)) /\ Graph(cs, Without(fs, T))
<1>1. /\ cs \in Some(Step, Cell) /\ IsFiniteSet(DOMAIN cs)
      /\ fs \in Some(Transition, Flow) /\ IsFiniteSet(DOMAIN fs)
  BY DEF Graph
<1>2. Without(cs, S) \in Some(Step, Cell) /\ IsFiniteSet(DOMAIN Without(cs, S))
  BY ONLY <1>1, WithoutIsSome
<1>3. Without(fs, T) \in Some(Transition, Flow) /\ IsFiniteSet(DOMAIN Without(fs, T))
  BY ONLY <1>1, WithoutIsSome
<1>4. QED
  BY <1>1, <1>2, <1>3 DEF Graph

LEMMA DrawnWithout ==
  ASSUME NEW ls, NEW fs, Drawn(ls, fs), NEW ms \in SUBSET ls, NEW T
  PROVE  Drawn(ms, Without(fs, T))
<1>1. /\ DOMAIN Without(fs, T) = DOMAIN fs \ T
      /\ \A x \in DOMAIN fs \ T : Without(fs, T)[x] = fs[x]
  BY DEF Without
<1>2. QED
  BY <1>1, DrawnAfter

LEMMA LinkMovedKeeps ==
  ASSUME GraphInv, NEW t \in Transition, NEW f \in Step, LinkMoved(t, f)
  PROVE  GraphInv'
<1> DEFINE new == [flows EXCEPT ![t].finish = f]
<1>1. /\ t \in DOMAIN flows
      /\ Check(active, nodes, links, persisted, cells, new)
      /\ moved' = TRUE /\ UNCHANGED stored
  BY DEF LinkMoved
<1>2. flows \in [DOMAIN flows -> Flow] /\ DOMAIN flows \subseteq Transition
  BY GraphFacts, SomeDef DEF Graph
<1>3. new \in [DOMAIN flows -> Flow] /\ DOMAIN new = DOMAIN flows
  <2>1. flows[t] \in Flow
    BY <1>1, <1>2
  <2>2. [flows[t] EXCEPT !.finish = f] \in Flow
    BY <2>1 DEF Flow
  <2>3. new = [flows EXCEPT ![t] = [flows[t] EXCEPT !.finish = f]]
    BY <1>1
  <2>4. QED
    BY <1>2, <2>2, <2>3
<1> HIDE DEF new
<1>4. Graph(cells, new)
  BY <1>2, <1>3, GraphFacts, SomeDef DEF Graph
<1>5. QED
  BY <1>1, <1>4, GraphFacts, CheckKeeps

LEMMA LinkDeletedKeeps ==
  ASSUME GraphInv, NEW t \in Transition, LinkDeleted(t)
  PROVE  GraphInv'
<1>1. PICK ls \in RemoveLinks({t}) :
           Check(active, nodes, ls, persisted, cells, Without(flows, {t}))
  BY DEF LinkDeleted
<1>2. ls \subseteq links
  BY SplicedIsLess DEF RemoveLinks
<1>3. Lists(nodes, ls)
  BY <1>2, GraphFacts, ListsAfter
<1>4. Graph(cells, Without(flows, {t}))
  BY GraphFacts, GraphWithout
<1>5. Agreeing(ls \cup stored.links)
  BY <1>2, GraphFacts DEF Agreeing
<1>6. ~moved => Drawn(ls \cup stored.links, Without(flows, {t}))
  <2>1. ls \cup stored.links \in SUBSET (links \cup stored.links)
    BY <1>2
  <2>2. QED
    BY <2>1, GraphFacts, DrawnWithout
<1>7. UNCHANGED <<stored, moved>>
  BY DEF LinkDeleted
<1>8. QED
  BY <1>1, <1>3, <1>4, <1>5, <1>6, <1>7, GraphFacts, CheckKeeps

LEMMA DeleteKeeps ==
  ASSUME GraphInv, NEW s \in Step, Delete(s)
  PROVE  GraphInv'
<1> DEFINE gone == {t \in DOMAIN flows : s \in {flows[t].start, flows[t].finish}}
<1>1. PICK ns \in RemoveStep(s), ls \in RemoveLinks(gone) :
           Check(active, ns, Attached(ls, ns), persisted, Without(cells, {s}), Without(flows, gone))
  BY DEF Delete
<1> HIDE DEF gone
<1>2. ns \subseteq nodes /\ ls \subseteq links
  BY SplicedIsLess DEF RemoveLinks, RemoveStep
<1> DEFINE ms == Attached(ls, ns)
<1>3. Lists(ns, ms) /\ ms \subseteq links
  BY <1>2, GraphFacts, ListsAfter
<1> HIDE DEF ms
<1>4. Graph(Without(cells, {s}), Without(flows, gone))
  BY GraphFacts, GraphWithout
<1>5. Agreeing(ms \cup stored.links)
  BY <1>3, GraphFacts DEF Agreeing
<1>6. ~moved => Drawn(ms \cup stored.links, Without(flows, gone))
  <2>1. ms \cup stored.links \in SUBSET (links \cup stored.links)
    BY <1>3
  <2>2. QED
    BY <2>1, GraphFacts, DrawnWithout
<1>7. UNCHANGED <<stored, moved>>
  BY DEF Delete
<1>8. Check(active, ns, ms, persisted, Without(cells, {s}), Without(flows, gone))
  BY <1>1 DEF ms
<1>9. QED
  BY <1>3, <1>4, <1>5, <1>6, <1>7, <1>8, GraphFacts, CheckKeeps

LEMMA FormDeleteKeeps ==
  ASSUME GraphInv, NEW s \in Step, FormDelete(s)
  PROVE  GraphInv'
<1> DEFINE ns == nodes \ {s}
           ms == Attached(links, ns)
<1>1. Check(active, ns, ms, persisted, cells, flows) /\ UNCHANGED <<stored, moved>>
  BY DEF FormDelete
<1>2. Lists(ns, ms) /\ ms \subseteq links
  <2>1. ns \in SUBSET nodes /\ links \in SUBSET links
    OBVIOUS
  <2> HIDE DEF ns
  <2>2. QED
    BY <2>1, GraphFacts, ListsAfter
<1> HIDE DEF ns, ms
<1>3. Agreeing(ms \cup stored.links)
  BY <1>2, GraphFacts DEF Agreeing
<1>4. ~moved => Drawn(ms \cup stored.links, flows)
  BY <1>2, GraphFacts DEF Drawn
<1>5. QED
  BY <1>1, <1>2, <1>3, <1>4, GraphFacts, CheckKeeps

(* The graph will be built: nothing is promised of it until then.          *)
LEMMA RebuildKeeps ==
  ASSUME GraphInv, rebuilding' = TRUE,
         UNCHANGED <<nodes, links, persisted, stored, cells, flows, active, moved>>
  PROVE  GraphInv'
<1>1. DesignerTypeOK'
  BY DEF GraphInv, DesignerTypeOK, Some, Cell, Flow, Keys
<1>2. QED
  BY <1>1 DEF GraphInv, Lists, Graph, Agreeing, Drawn, GraphShowsEntity

LEMMA EditDescriptionKeeps ==
  ASSUME GraphInv, NEW s \in Step, EditDescription(s)
  PROVE  GraphInv'
<1>1. PICK t \in (IF s \in persisted THEN {s} ELSE nodes \ persisted) :
        /\ t \in nodes \cap DOMAIN cells
        /\ Check(active, nodes, links, persisted, [cells EXCEPT ![t].current = FALSE], flows)
        /\ UNCHANGED <<stored, moved>>
  BY DEF EditDescription
<1> DEFINE new == [cells EXCEPT ![t].current = FALSE]
<1>2. cells \in [DOMAIN cells -> Cell] /\ DOMAIN cells \subseteq Step
  BY GraphFacts, SomeDef DEF Graph
<1>3. new \in [DOMAIN cells -> Cell] /\ DOMAIN new = DOMAIN cells
  <2>1. cells[t] \in Cell
    BY <1>1, <1>2
  <2>2. [cells[t] EXCEPT !.current = FALSE] \in Cell
    BY <2>1 DEF Cell
  <2>3. new = [cells EXCEPT ![t] = [cells[t] EXCEPT !.current = FALSE]]
    BY <1>1
  <2>4. QED
    BY <1>2, <2>2, <2>3
<1> HIDE DEF new
<1>4. Graph(new, flows)
  BY <1>2, <1>3, GraphFacts, SomeDef DEF Graph
<1>5. Check(active, nodes, links, persisted, new, flows)
  BY <1>1 DEF new
<1>6. QED
  BY <1>1, <1>4, <1>5, GraphFacts, CheckKeeps

LEMMA SwitchTabKeeps == ASSUME GraphInv, SwitchTab PROVE GraphInv'
  BY GraphFacts, CheckKeeps DEF SwitchTab

LEMMA StoredKeeps == ASSUME GraphInv, Stored PROVE GraphInv'
<1>1. /\ stored'.nodes = nodes /\ stored'.links = links
      /\ UNCHANGED <<nodes, links, persisted, cells, flows, active, rebuilding, moved>>
  BY DEF Stored
<1>2. DesignerTypeOK'
  BY <1>1 DEF GraphInv, DesignerTypeOK, Some, Cell, Flow, Keys
<1>3. Lists(nodes, links)' /\ Lists(stored.nodes, stored.links)' /\ Graph(cells, flows)'
  BY <1>1, GraphFacts DEF Lists, Graph
<1>4. Agreeing(links \cup stored.links)' /\ (~moved => Drawn(links \cup stored.links, flows))'
  BY <1>1, GraphFacts DEF Agreeing, Drawn
<1>5. GraphShowsEntity'
  BY <1>1 DEF GraphInv, GraphShowsEntity, Keys
<1>6. QED
  BY <1>2, <1>3, <1>4, <1>5 DEF GraphInv

LEMMA AnswerKeeps == ASSUME GraphInv, Answer PROVE GraphInv'
<1> DEFINE cs == [s \in DOMAIN cells |-> [cells[s] EXCEPT !.current = FALSE]]
           fs == [t \in DOMAIN flows |-> [flows[t] EXCEPT !.current = FALSE]]
           ids == stored.nodes \cup Keys(stored.links)
<1>1. Check(active, stored.nodes, stored.links, ids, cs, fs) /\ UNCHANGED <<stored, moved>>
  BY DEF Answer
<1>2. /\ cells \in [DOMAIN cells -> Cell] /\ DOMAIN cells \subseteq Step
      /\ flows \in [DOMAIN flows -> Flow] /\ DOMAIN flows \subseteq Transition
  BY GraphFacts, SomeDef DEF Graph
<1>3. cs \in [DOMAIN cells -> Cell] /\ DOMAIN cs = DOMAIN cells
  <2>1. \A s \in DOMAIN cells : [cells[s] EXCEPT !.current = FALSE] \in Cell
    BY <1>2 DEF Cell
  <2>2. QED
    BY <2>1
<1>4. /\ fs \in [DOMAIN flows -> Flow] /\ DOMAIN fs = DOMAIN flows
      /\ \A t \in DOMAIN flows : fs[t].start = flows[t].start /\ fs[t].finish = flows[t].finish
  <2>1. \A t \in DOMAIN flows : /\ [flows[t] EXCEPT !.current = FALSE] \in Flow
                               /\ [flows[t] EXCEPT !.current = FALSE].start = flows[t].start
                               /\ [flows[t] EXCEPT !.current = FALSE].finish = flows[t].finish
    BY <1>2 DEF Flow
  <2>2. QED
    BY <2>1
<1>5. ids \subseteq Step \cup Transition
  BY GraphFacts DEF Lists, Keys, Link
<1> HIDE DEF cs, fs, ids
<1>6. Graph(cs, fs)
  BY <1>2, <1>3, <1>4, GraphFacts, SomeDef DEF Graph
<1>7. Agreeing(stored.links \cup stored.links)
  BY GraphFacts DEF Agreeing
<1>8. ~moved => Drawn(stored.links \cup stored.links, fs)
  BY <1>4, GraphFacts DEF Drawn
<1>9. QED
  BY <1>1, <1>5, <1>6, <1>7, <1>8, GraphFacts, CheckKeeps

(* A graph that was just built is the entity's.                            *)
LEMMA BuildGraphKeeps == ASSUME GraphInv, BuildGraph PROVE GraphInv'
<1>1. /\ cells' = CellsOf(nodes, persisted) /\ flows' = FlowsOf(links, persisted)
      /\ rebuilding' = FALSE /\ moved' = FALSE
      /\ UNCHANGED <<nodes, links, persisted, stored, active>>
  BY DEF BuildGraph
<1>2. IsFiniteSet(Keys(links)) /\ Cardinality(Keys(links)) = Cardinality(links)
  BY GraphFacts, KeysOf DEF Lists
<1>3. /\ DOMAIN cells' = nodes /\ cells' \in [nodes -> Cell]
      /\ \A s \in nodes : cells'[s].current
  BY <1>1 DEF CellsOf, Cell
<1>4. /\ DOMAIN flows' = Keys(links)
      /\ \A t \in Keys(links) : flows'[t] \in Flow /\ flows'[t].current
      /\ \A l \in links : flows'[l.key].start = l.start /\ flows'[l.key].finish = l.finish
  <2>1. /\ flows' = [t \in Keys(links) |->
                      [current |-> TRUE, id |-> t \in persisted,
                       start |-> (CHOOSE x \in links : x.key = t).start,
                       finish |-> (CHOOSE x \in links : x.key = t).finish]]
    BY <1>1 DEF FlowsOf
  <2>2. \A l \in links : (CHOOSE x \in links : x.key = l.key) = l
    BY GraphFacts DEF Agreeing
  <2>3. \A t \in Keys(links) : (CHOOSE x \in links : x.key = t) \in links
    BY DEF Keys
  <2>4. \A l \in links : l.key \in Keys(links) /\ l.start \in Step /\ l.finish \in Step
    BY GraphFacts DEF Lists, Keys, Link
  <2>5. \A t \in Keys(links) : flows'[t] \in Flow /\ flows'[t].current
    BY <2>1, <2>3, <2>4 DEF Flow
  <2>6. \A l \in links : flows'[l.key].start = l.start /\ flows'[l.key].finish = l.finish
    BY <2>1, <2>2, <2>4
  <2>7. QED
    BY <2>1, <2>5, <2>6
<1>5. flows' \in [Keys(links) -> Flow]
  BY <1>1, <1>4 DEF FlowsOf
<1>6. Graph(cells, flows)'
  <2>1. nodes \subseteq Step /\ Keys(links) \subseteq Transition /\ IsFiniteSet(nodes)
    BY GraphFacts DEF Lists, Keys, Link
  <2>2. cells' \in Some(Step, Cell)
    BY <1>3, <2>1, SomeDef
  <2>3. flows' \in Some(Transition, Flow)
    BY <1>4, <1>5, <2>1, SomeDef
  <2>4. QED
    BY <1>2, <1>3, <1>4, <2>1, <2>2, <2>3 DEF Graph, Some, Cell, Flow
<1>7. DesignerTypeOK'
  BY <1>1, <1>6 DEF GraphInv, DesignerTypeOK, Graph, Some, Cell, Flow, Keys
<1>8. Lists(nodes, links)' /\ Lists(stored.nodes, stored.links)'
  BY <1>1, GraphFacts DEF Lists
<1>9. Agreeing(links \cup stored.links)'
  BY <1>1, GraphFacts DEF Agreeing
<1>10. (~moved => Drawn(links \cup stored.links, flows))'
  <2> SUFFICES ASSUME NEW l \in links \cup stored.links, l.key \in Keys(links)
               PROVE  {flows'[l.key].start, flows'[l.key].finish} = {l.start, l.finish}
    BY <1>1, <1>4 DEF Drawn
  <2>1. l \in links
    BY GraphFacts DEF Agreeing, Keys
  <2>2. QED
    BY <1>4, <2>1
<1>11. GraphShowsEntity'
  BY <1>1, <1>3, <1>4 DEF GraphShowsEntity, Keys
<1>12. QED
  BY <1>6, <1>7, <1>8, <1>9, <1>10, <1>11 DEF GraphInv

LEMMA GraphInvInit == DesignerInit => GraphInv
<1> SUFFICES ASSUME DesignerInit PROVE GraphInv
  OBVIOUS
<1>1. /\ nodes = {} /\ links = {} /\ persisted = {} /\ stored.nodes = {} /\ stored.links = {}
      /\ active = TRUE /\ rebuilding = FALSE /\ moved = FALSE
  BY DEF DesignerInit
<1>2. Keys(links) = {}
  BY <1>1 DEF Keys
<1>3. /\ DOMAIN cells = {} /\ cells \in [{} -> Cell]
      /\ DOMAIN flows = {} /\ flows \in [{} -> Flow]
  BY <1>1, <1>2 DEF DesignerInit, CellsOf, FlowsOf
<1>4. cells \in Some(Step, Cell) /\ flows \in Some(Transition, Flow)
  BY <1>3, SomeDef
<1>5. QED
  BY <1>1, <1>2, <1>3, <1>4, FS_EmptySet
  DEF GraphInv, DesignerTypeOK, Lists, Graph, Agreeing, Drawn, GraphShowsEntity

LEMMA GraphInvNext == GraphInv /\ [DesignerNext]_designerVars => GraphInv'
<1> SUFFICES ASSUME GraphInv, [DesignerNext]_designerVars PROVE GraphInv'
  OBVIOUS
<1>1. CASE UNCHANGED designerVars
  <2>1. DesignerTypeOK'
    BY <1>1 DEF designerVars, GraphInv, DesignerTypeOK, Some, Cell, Flow, Keys
  <2>2. QED
    BY <1>1, <2>1 DEF designerVars, GraphInv, Lists, Graph, Agreeing, Drawn, GraphShowsEntity, Keys
<1>2. CASE Drop
  BY <1>2, CellCreatedKeeps DEF Drop
<1>3. ASSUME NEW s \in Step, Duplicate(s) PROVE GraphInv'
  BY <1>3, CellCreatedKeeps DEF Duplicate
<1>4. ASSUME NEW s \in Step, Delete(s) PROVE GraphInv'
  BY <1>4, DeleteKeeps
<1>5. ASSUME NEW s \in Step, FormDelete(s) PROVE GraphInv'
  BY <1>5, FormDeleteKeeps
<1>6. ASSUME NEW s \in Step, EditNode(s) PROVE GraphInv'
  BY <1>6, RebuildKeeps DEF EditNode
<1>7. ASSUME NEW s \in Step, EditDescription(s) PROVE GraphInv'
  BY <1>7, EditDescriptionKeeps
<1>8. ASSUME NEW s \in Step, NEW f \in Step, LinkConnected(s, f) PROVE GraphInv'
  BY <1>8, LinkConnectedKeeps
<1>9. ASSUME NEW t \in Transition, NEW f \in Step, LinkMoved(t, f) PROVE GraphInv'
  BY <1>9, LinkMovedKeeps
<1>10. ASSUME NEW t \in Transition, LinkDeleted(t) PROVE GraphInv'
  BY <1>10, LinkDeletedKeeps
<1>11. CASE RefreshGraph
  BY <1>11, RebuildKeeps DEF RefreshGraph
<1>12. CASE SwitchTab
  BY <1>12, SwitchTabKeeps
<1>13. CASE Stored
  BY <1>13, StoredKeeps
<1>14. CASE Answer
  BY <1>14, AnswerKeeps
<1>15. CASE BuildGraph
  BY <1>15, BuildGraphKeeps
<1>16. QED
  BY <1>1, <1>2, <1>3, <1>4, <1>5, <1>6, <1>7, <1>8, <1>9, <1>10, <1>11, <1>12, <1>13, <1>14,
     <1>15 DEF DesignerNext

(* The inductive invariant of the diagram.                                 *)
THEOREM GraphInvariant == DesignerSpec => []GraphInv
  BY GraphInvInit, GraphInvNext, PTL DEF DesignerSpec

(* The lists of the entity and the cells of the graph keep their types.    *)
THEOREM DesignerTypeCorrect == DesignerSpec => []DesignerTypeOK
<1>1. GraphInv => DesignerTypeOK
  BY DEF GraphInv
<1>2. QED
  BY <1>1, GraphInvariant, PTL

(* A graph in front that no timer will build has a cell for each step and  *)
(* transition of the entity and no other, each with the object of the      *)
(* entity: counting the cells and looking at each object of the entity     *)
(* (checkGraphConsistents) is enough.                                      *)
THEOREM GraphShowsCorrect == DesignerSpec => []GraphShowsEntity
<1>1. GraphInv => GraphShowsEntity
  BY DEF GraphInv
<1>2. QED
  BY <1>1, GraphInvariant, PTL

-----------------------------------------------------------------------------
(* Deletions.                                                              *)

(* When each object that is to go is found, no other goes in its place.    *)
LEMMA SplicedExactly ==
  ASSUME NEW S, IsFiniteSet(S), NEW found, NEW gone, IsFiniteSet(gone),
         Cardinality(found) = Cardinality(gone), NEW X \in Spliced(S, found, gone)
  PROVE  X = S \ found
<1> DEFINE lost == Cardinality(gone) - Cardinality(found)
           rest == S \ found
<1>1. PICK Y \in SUBSET rest : /\ X = rest \ Y
                             /\ \/ Cardinality(Y) = lost
                                \/ Cardinality(Y) < lost /\ Y = rest
  BY DEF Spliced
<1>2. lost = 0
  BY FS_CardinalityType
<1>3. IsFiniteSet(Y)
  BY FS_Subset
<1>4. Cardinality(Y) = 0
  BY <1>1, <1>2, <1>3, FS_CardinalityType
<1>5. Y = {}
  BY <1>3, <1>4, FS_EmptySet
<1>6. QED
  BY <1>1, <1>5

LEMMA StepRemoved ==
  ASSUME GraphInv, InGraph, NEW s \in DOMAIN cells, NEW ns \in RemoveStep(s)
  PROVE  ns = nodes \ {s}
<1>1. {n \in nodes : n = s /\ cells[s].current} = {s}
  BY GraphOfGesture
<1>2. IsFiniteSet(nodes) /\ IsFiniteSet({s})
  BY GraphFacts, FS_Singleton DEF Lists
<1>3. ns \in Spliced(nodes, {s}, {s})
  BY <1>1 DEF RemoveStep
<1>4. QED
  BY <1>2, <1>3, SplicedExactly

LEMMA LinksRemoved ==
  ASSUME GraphInv, InGraph, NEW T \in SUBSET DOMAIN flows, NEW ls \in RemoveLinks(T)
  PROVE  ls = {l \in links : l.key \notin T}
<1> DEFINE found == {l \in links : l.key \in T}
<1>1. {l \in links : l.key \in T /\ flows[l.key].current} = found
  BY GraphOfGesture
<1>2. ls \in Spliced(links, found, T)
  BY <1>1 DEF RemoveLinks
<1>3. IsFiniteSet(links) /\ IsFiniteSet(found) /\ Agreeing(found)
  <2>1. IsFiniteSet(links)
    BY GraphFacts DEF Lists
  <2>2. IsFiniteSet(found)
    BY <2>1, FS_Subset
  <2>3. QED
    BY <2>1, <2>2, GraphFacts DEF Agreeing
<1>4. Keys(found) = T
  BY GraphOfGesture DEF Keys
<1>5. IsFiniteSet(T) /\ Cardinality(found) = Cardinality(T)
  <2> HIDE DEF found
  <2>1. QED
    BY <1>3, <1>4, KeysOf
<1>6. ls = links \ found
  <2> HIDE DEF found
  <2>1. QED
    BY <1>2, <1>3, <1>5, SplicedExactly
<1>7. QED
  BY <1>6

LEMMA DeleteIsExact ==
  ASSUME GraphInv, NEW s \in Step, Delete(s)
  PROVE  /\ nodes \ nodes' \subseteq {s}
         /\ ~moved => \A l \in links \ links' : s \in {l.start, l.finish}
<1> DEFINE gone == {t \in DOMAIN flows : s \in {flows[t].start, flows[t].finish}}
<1>1. InGraph /\ s \in DOMAIN cells
  BY DEF Delete, Selected
<1>2. PICK ns \in RemoveStep(s), ls \in RemoveLinks(gone) :
           Check(active, ns, Attached(ls, ns), persisted, Without(cells, {s}), Without(flows, gone))
  BY DEF Delete
<1>3. nodes' = ns /\ links' = Attached(ls, ns)
  BY <1>2 DEF Check
<1>4. ns = nodes \ {s}
  BY <1>1, StepRemoved
<1>5. ls = {l \in links : l.key \notin gone}
  <2>1. gone \in SUBSET DOMAIN flows
    OBVIOUS
  <2> HIDE DEF gone
  <2>2. QED
    BY <1>1, <2>1, LinksRemoved
<1>6. ASSUME ~moved, NEW l \in links, l \notin links' PROVE s \in {l.start, l.finish}
  <2>1. CASE l.key \in gone
    <3>1. {flows[l.key].start, flows[l.key].finish} = {l.start, l.finish}
      BY <1>6, <2>1, GraphFacts DEF Drawn
    <3>2. QED
      BY <2>1, <3>1
  <2>2. CASE l.key \notin gone
    <3>1. l \in ls /\ {l.start, l.finish} \subseteq nodes
      BY <1>5, <1>6, <2>2, GraphFacts DEF Lists
    <3>2. QED
      BY <1>3, <1>4, <1>6, <3>1 DEF Attached
  <2>3. QED
    BY <2>1, <2>2
<1>7. QED
  BY <1>3, <1>4, <1>6

LEMMA LinkDeletedIsExact ==
  ASSUME GraphInv, NEW t \in Transition, LinkDeleted(t)
  PROVE  nodes' = nodes /\ Keys(links) \ Keys(links') \subseteq {t}
<1>1. InGraph /\ {t} \in SUBSET DOMAIN flows
  BY DEF LinkDeleted
<1>2. PICK ls \in RemoveLinks({t}) :
           Check(active, nodes, ls, persisted, cells, Without(flows, {t}))
  BY DEF LinkDeleted
<1>3. nodes' = nodes /\ links' = ls
  BY <1>2 DEF Check
<1>4. ls = {l \in links : l.key \notin {t}}
  BY <1>1, LinksRemoved
<1>5. QED
  BY <1>3, <1>4 DEF Keys

(* A deletion in the graph takes away the step and its transitions, or the *)
(* transition, and nothing else: the splice of deleteCashed finds each     *)
(* object that is to go, since every cell holds one of the entity.         *)
THEOREM OnlyDeletedCorrect == DesignerSpec => OnlyTheDeletedGo
<1> DEFINE Exact ==
      /\ \A s \in Step : Delete(s) =>
            /\ nodes \ nodes' \subseteq {s}
            /\ ~moved => \A l \in links \ links' : s \in {l.start, l.finish}
      /\ \A t \in Transition : LinkDeleted(t) =>
            nodes' = nodes /\ Keys(links) \ Keys(links') \subseteq {t}
<1>1. GraphInv /\ [DesignerNext]_designerVars => [Exact]_designerVars
  BY DeleteIsExact, LinkDeletedIsExact
<1> HIDE DEF Exact
<1>2. DesignerSpec => [][Exact]_designerVars
  BY <1>1, GraphInvariant, PTL DEF DesignerSpec
<1>3. QED
  BY <1>2 DEF OnlyTheDeletedGo, Exact

-----------------------------------------------------------------------------
(* Every variable of the notebook and of the diagram keeps its type.       *)
THEOREM EditorsTypeCorrect == NotebookSpec /\ DesignerSpec => []EditorsTypeOK
<1>1. NotebookTypeOK /\ DesignerTypeOK => EditorsTypeOK
  BY DEF EditorsTypeOK
<1>2. QED
  BY <1>1, NotebookTypeCorrect, DesignerTypeCorrect, PTL
=============================================================================
