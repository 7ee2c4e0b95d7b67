----------------------------- MODULE UiNotebook -----------------------------
(***************************************************************************)
(* The page of a notebook (dataspace/notebook/): its paragraphs are run    *)
(* one by one, the server puts each run into the queue of the notebook's   *)
(* Livy session and answers at once with the paragraph "pending"; a timer  *)
(* asks for the paragraphs that are pending until one has finished.        *)
(*                                                                         *)
(* Every handler writes the whole list of paragraphs: the list of the      *)
(* moment the call was made with one paragraph replaced, however many      *)
(* other answers came in between.  The page itself is saved by a timer.    *)
(* Texts, titles, widths and the rest of what is edited are abstracted:    *)
(* only the statuses, the results and the order of paragraphs are kept.    *)
(***************************************************************************)
EXTENDS Naturals, FiniteSets, Functions, SequencesExt

CONSTANTS
    Paragraph,     \* ids of paragraphs
    Opened,        \* the paragraphs of the notebook when it is opened
    MaxCalls,      \* bound: calls under way at a time
    MaxRuns,       \* bound: runs started
    MaxSaves       \* bound: savings started and paragraphs linked

ASSUME NotebookAssumption ==
    /\ Opened \in Seq(Paragraph) /\ IsInjective(Opened)
    /\ MaxCalls \in Nat /\ MaxRuns \in Nat /\ MaxSaves \in Nat

VARIABLES
    paras,         \* the paragraphs of the page
    running,       \* the paragraphs without a run button: state.isRunning
    timer,         \* whether the timer of pending paragraphs runs
    calls,         \* calls under way
    database,      \* the paragraphs of the notebook in the server's database
    jobs,          \* the queue of the notebook's Livy session
    runs, saves    \* how many runs, and savings and links, were started

notebookVars == <<paras, running, timer, calls, database, jobs, runs, saves>>
-----------------------------------------------------------------------------
(* A paragraph; its result is the run that produced it, 0 when it has none *)
ParagraphRow == [id : Paragraph, status : {"new", "pending", "done"}, result : 0..MaxRuns]

Kept == Seq(ParagraphRow)

(* A call: the list and the position its handler captured, and the answer  *)
(* once the server has given it.  An answer that has come is still being   *)
(* read when the call is no more counted as under way.                     *)
Asking == [kind : {"run", "poll", "save", "add"}, list : Kept, index : Nat,
           run : 0..MaxRuns, answer : {<<>>} \cup Kept, here : BOOLEAN]

NotebookTypeOK ==
    /\ paras \in Kept /\ database \in Kept
    /\ running \subseteq Paragraph
    /\ timer \in BOOLEAN
    /\ calls \subseteq Asking /\ IsFiniteSet(calls)
    /\ jobs \in Seq([id : Paragraph, run : 1..MaxRuns])
    /\ runs \in 0..MaxRuns /\ saves \in 0..MaxSaves

Blank(p) == [id |-> p, status |-> "new", result |-> 0]

NotebookInit ==
    /\ paras = [i \in DOMAIN Opened |-> Blank(Opened[i])]
    /\ database = paras
    /\ running = {} /\ timer = FALSE /\ calls = {} /\ jobs = <<>>
    /\ runs = 0 /\ saves = 0
-----------------------------------------------------------------------------
Ids(list) == {list[i].id : i \in DOMAIN list}

Of(list, p) == list[CHOOSE i \in DOMAIN list : list[i].id = p]

Pending(list) == {p \in Ids(list) : Of(list, p).status = "pending"}

(* fetchCount: calls whose answer has not come *)
Fetching == {c \in calls : ~c.here}

CallOf(kind, list, i, run) ==
    [kind |-> kind, list |-> list, index |-> i, run |-> run,
     answer |-> <<>>, here |-> FALSE]

(* The page gets the list: the timer starts when the list is another one   *)
(* and a paragraph is pending; a paragraph whose status has become "done"  *)
(* has its run button again, one that appears pending has none.            *)
Timed(list) == timer \/ (list # paras /\ Pending(list) # {})

Watched(list, now) ==
    {p \in Ids(list) :
        \/ p \in now /\ ~(/\ Of(list, p).status = "done"
                          /\ p \in Ids(paras)
                          /\ Of(paras, p).status # "done")
        \/ p \notin Ids(paras) /\ Of(list, p).status = "pending"}

Show(list) ==
    /\ paras' = list
    /\ timer' = Timed(list)
    /\ running' = Watched(list, running)
-----------------------------------------------------------------------------
(* Any change of a paragraph that is neither its status nor its result:    *)
(* interpreter, text, output type, heights, what is shown.  It only lets   *)
(* the timer start.                                                        *)
EditParagraph ==
    /\ Pending(paras) # {}
    /\ timer' = TRUE
    /\ UNCHANGED <<paras, running, calls, database, jobs, runs, saves>>

(* editorOnChange: the text of a paragraph that is not running *)
EditText(i) == paras[i].id \notin running /\ EditParagraph

(* clearConsole *)
Clear(i) ==
    /\ Fetching = {}
    /\ paras[i].result # 0
    /\ Show([paras EXCEPT ![i].result = 0])
    /\ UNCHANGED <<calls, database, jobs, runs, saves>>

(* linkParagraph: the dialog is opened while nothing is under way, and is  *)
(* confirmed at any time later.                                            *)
LinkParagraph(i) ==
    /\ saves < MaxSaves
    /\ saves' = saves + 1
    /\ Show([paras EXCEPT ![i] = Blank(@.id)])
    /\ UNCHANGED <<calls, database, jobs, runs>>

(* runParagraph: the list the handler captures is the one before the       *)
(* output is cleared.                                                      *)
Run(i) ==
    /\ paras[i].id \notin running
    /\ runs < MaxRuns /\ Cardinality(calls) < MaxCalls
    /\ runs' = runs + 1
    /\ calls' = calls \cup {CallOf("run", paras, i, runs + 1)}
    /\ LET list == [paras EXCEPT ![i].result = 0]
       IN  /\ paras' = list
           /\ timer' = Timed(list)
           /\ running' = Watched(list, running) \cup {paras[i].id}
    /\ UNCHANGED <<database, jobs, saves>>

(* save, of the page with the paragraphs list *)
Save(list) ==
    /\ saves < MaxSaves /\ Cardinality(calls) < MaxCalls
    /\ saves' = saves + 1
    /\ calls' = calls \cup {CallOf("save", list, 0, 0)}

(* autoSave and the save button, which wait until nothing is under way,    *)
(* and Ctrl+S, which does not                                              *)
SavePage ==
    /\ Save(paras)
    /\ UNCHANGED <<paras, running, timer, database, jobs, runs>>

(* setNewTitle, setNewWidth and the like save the page with the change. *)
EditAndSave ==
    /\ Save(paras)
    /\ timer' = (timer \/ Pending(paras) # {})
    /\ UNCHANGED <<paras, running, database, jobs, runs>>

(* moveParagraph, deleteParagraph and unlinkParagraph: buttons of a page   *)
(* that has nothing under way, followed by a saving                        *)
Rearrange(list) ==
    /\ Fetching = {}
    /\ Show(list)
    /\ Save(list)
    /\ UNCHANGED <<database, jobs, runs>>

Move(i) == i < Len(paras) /\ Rearrange([paras EXCEPT ![i] = paras[i + 1], ![i + 1] = paras[i]])

DeleteParagraph(i) == Rearrange(RemoveAt(paras, i))

UnlinkParagraph(i) == Rearrange([paras EXCEPT ![i] = Blank(@.id)])

(* addParagraph; the saving that follows the answer is counted here *)
Add(i) ==
    /\ Fetching = {}
    /\ saves < MaxSaves /\ Cardinality(calls) < MaxCalls
    /\ saves' = saves + 1
    /\ calls' = calls \cup {CallOf("add", paras, i, 0)}
    /\ UNCHANGED <<paras, running, timer, database, jobs, runs>>

(* checkPendingStatus: one call for each paragraph that is pending         *)
Tick ==
    LET polls == {CallOf("poll", paras, i, 0) : i \in {j \in DOMAIN paras : paras[j].status = "pending"}}
    IN  /\ timer
        /\ polls # {}
        /\ Cardinality(calls \cup polls) <= MaxCalls
        /\ calls' = calls \cup polls
        /\ UNCHANGED <<paras, running, timer, database, jobs, runs, saves>>
-----------------------------------------------------------------------------
(* The server *)

Answered(c, list) == calls' = (calls \ {c}) \cup {[c EXCEPT !.answer = list, !.here = TRUE]}

Known(c) == c.list[c.index].id \in Ids(database)

Put(list, cell) == [i \in DOMAIN list |-> IF list[i].id = cell.id THEN cell ELSE list[i]]

(* Paragraph.run with Notebook.submit: the paragraph is stored pending     *)
(* without a result and queued.  Where the session is found dead it has    *)
(* ended in an error and is queued all the same; without a session to run  *)
(* it, it has ended in an error.  A call is refused for a paragraph that   *)
(* has nothing to run, or is stored no longer.                             *)
ServeRun(c) ==
    LET id == c.list[c.index].id
        queued == Append(jobs, [id |-> id, run |-> c.run])
        Becomes(status, result) ==
            LET row == [id |-> id, status |-> status, result |-> result]
            IN  Known(c) /\ database' = Put(database, row) /\ Answered(c, <<row>>)
    IN  /\ c.kind = "run"
        /\ \/ Becomes("pending", 0) /\ jobs' = queued
           \/ Becomes("done", c.run) /\ jobs' \in {jobs, queued}
           \/ Answered(c, <<>>) /\ UNCHANGED <<database, jobs>>

ServePoll(c) ==
    /\ c.kind = "poll"
    /\ Answered(c, IF Known(c) THEN <<Of(database, c.list[c.index].id)>> ELSE <<>>)
    /\ UNCHANGED <<database, jobs>>

(* The object is stored as it was sent, statuses and results included. *)
ServeSave(c) ==
    /\ c.kind = "save"
    /\ database' = c.list
    /\ Answered(c, c.list)
    /\ UNCHANGED jobs

ServeAdd(c) ==
    /\ c.kind = "add"
    /\ \/ /\ c.index <= Len(database)
          /\ \E p \in Paragraph \ (Ids(database) \cup Ids(paras)) :
                 database' = InsertAt(database, c.index + 1, Blank(p))
          /\ Answered(c, database')
       \/ /\ \/ c.index > Len(database)
             \/ Paragraph = Ids(database) \cup Ids(paras)
          /\ calls' = calls \ {c}
          /\ UNCHANGED database
    /\ UNCHANGED jobs

Serve(c) ==
    /\ ~c.here
    /\ ServeRun(c) \/ ServePoll(c) \/ ServeSave(c) \/ ServeAdd(c)
    /\ UNCHANGED <<paras, running, timer, runs, saves>>

(* The session runs the paragraph at the head of its queue, and its end is *)
(* stored, be it a result or an error of Livy.                             *)
Work ==
    /\ jobs # <<>>
    /\ jobs' = Tail(jobs)
    /\ database' = Put(database, [id |-> Head(jobs).id, status |-> "done", result |-> Head(jobs).run])
    /\ UNCHANGED <<paras, running, timer, calls, runs, saves>>

(* Anything else that throws, before it is stored that the paragraph is in *)
(* progress or after, is only logged: no end is stored.                    *)
WorkFails ==
    /\ jobs # <<>>
    /\ jobs' = Tail(jobs)
    /\ database' \in {database, Put(database, [id |-> Head(jobs).id, status |-> "pending", result |-> 0])}
    /\ UNCHANGED <<paras, running, timer, calls, runs, saves>>

(* The server is started again: the queue was in its memory. *)
LoseQueue ==
    /\ jobs # <<>>
    /\ jobs' = <<>>
    /\ UNCHANGED <<paras, running, timer, calls, database, runs, saves>>
-----------------------------------------------------------------------------
(* The answers *)

Took(c) == calls' = calls \ {c}

(* For the mutation checks: the answer goes to the number its paragraph    *)
(* had, in the list as it is now.                                          *)
RunAnsweredNow(c) ==
    /\ c.kind = "run"
    /\ LET list == IF c.answer = <<>> THEN paras
                   ELSE [paras EXCEPT ![c.index] = c.answer[1]]
           now  == IF c.answer # <<>> /\ c.answer[1].status = "pending" THEN running
                   ELSE running \ {c.list[c.index].id}
       IN  /\ paras' = list
           /\ timer' = Timed(list)
           /\ running' = Watched(list, now)
    /\ Took(c)

(* runQuery: the list is the captured one with the answer in its place.    *)
(* The button is back unless the paragraph is pending.                     *)
RunAnswered(c) ==
    /\ c.kind = "run"
    /\ LET list == IF c.answer = <<>> THEN paras
                   ELSE [c.list EXCEPT ![c.index] = c.answer[1]]
           now  == IF c.answer # <<>> /\ c.answer[1].status = "pending" THEN running
                   ELSE running \ {c.list[c.index].id}
       IN  /\ paras' = list
           /\ timer' = Timed(list)
           /\ running' = Watched(list, now)
    /\ Took(c)

(* For the mutation checks: any answer to a poll ends the polling.         *)
PollAnsweredOnce(c) ==
    /\ c.kind = "poll"
    /\ IF c.answer # <<>> /\ c.answer[1].status = "done"
       THEN LET list == [c.list EXCEPT ![c.index] = c.answer[1]]
            IN  /\ paras' = list
                /\ running' = Watched(list, running)
                /\ timer' = FALSE
                   ELSE timer' = FALSE /\ UNCHANGED <<paras, running>>
    /\ Took(c)

(* checkParagraphStatus: a paragraph that has finished is put into the     *)
(* captured list, and the timer stops.                                     *)
PollAnswered(c) ==
    /\ c.kind = "poll"
    /\ IF c.answer # <<>> /\ c.answer[1].status = "done"
       THEN LET list == [c.list EXCEPT ![c.index] = c.answer[1]]
            IN  /\ paras' = list
                /\ running' = Watched(list, running)
                /\ timer' = FALSE
                   ELSE UNCHANGED <<paras, running, timer>>
    /\ Took(c)

Saved(c) ==
    /\ c.kind = "save"
    /\ Show(c.answer)
    /\ Took(c)

(* The answer to addParagraph replaces the list, and the page is saved. *)
Added(c) ==
    /\ c.kind = "add"
    /\ Show(c.answer)
    /\ calls' = (calls \ {c}) \cup {CallOf("save", c.answer, 0, 0)}

TakeAnswer(c) ==
    /\ c.here
    /\ RunAnswered(c) \/ PollAnswered(c) \/ Saved(c) \/ Added(c)
    /\ UNCHANGED <<database, jobs, runs, saves>>
-----------------------------------------------------------------------------
NotebookNext ==
    \/ EditParagraph
    \/ \E i \in DOMAIN paras : EditText(i)
    \/ EditAndSave
    \/ \E i \in DOMAIN paras : Clear(i)
    \/ \E i \in DOMAIN paras : Run(i)
    \/ \E i \in DOMAIN paras : Move(i)
    \/ \E i \in DOMAIN paras : DeleteParagraph(i)
    \/ \E i \in DOMAIN paras : LinkParagraph(i)
    \/ \E i \in DOMAIN paras : UnlinkParagraph(i)
    \/ \E i \in 0..Len(paras) : Add(i)
    \/ SavePage
    \/ Tick
    \/ Work
    \/ WorkFails
    \/ LoseQueue
    \/ \E c \in calls : Serve(c)
    \/ \E c \in calls : TakeAnswer(c)

(* The timer ticks, calls are answered and answers are taken; neither what *)
(* the user does is promised nor that a run ends.                          *)
NotebookFairness ==
    /\ WF_notebookVars(Tick)
    /\ WF_notebookVars(\E c \in calls : Serve(c))
    /\ WF_notebookVars(\E c \in calls : TakeAnswer(c))

NotebookSpec == NotebookInit /\ [][NotebookNext]_notebookVars /\ NotebookFairness
-----------------------------------------------------------------------------
(* No answer puts a paragraph into the place of another one: whatever was  *)
(* moved, deleted or added while the answer was on its way, a paragraph is *)
(* in the list once, on the page and in the database.                      *)
Distinct(list) == \A i, j \in DOMAIN list : i # j => list[i].id # list[j].id

ParagraphsAreDistinct == Distinct(paras) /\ Distinct(database)

(* The page shows the paragraph pending, and the server has its end. *)
Unaware(p) ==
    /\ p \in Pending(paras)
    /\ p \in Ids(database) /\ Of(database, p).status = "done"

(* Whatever is edited, saved, moved, added or linked while the paragraph   *)
(* runs, and whatever answers are late: once the server has the end of the *)
(* run, the page comes to show it, with the run button, unless the stored  *)
(* end is overwritten.  The timer asks until then.  This is so of one run: *)
(* with two the end of the first stops the timer of both.                  *)
EndedRunIsShown ==
    \A p \in Paragraph :
        [](runs <= 1) =>
            (Unaware(p) ~> /\ ~Unaware(p)
                           /\ p \in Ids(paras) /\ Of(paras, p).status = "done" => p \notin running)
=============================================================================
