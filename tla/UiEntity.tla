------------------------------ MODULE UiEntity ------------------------------
(***************************************************************************)
(* The page of an object (ViewContainer.js) and the path of the page       *)
(* (App.js, encode.js).  One instance of the view serves one selected      *)
(* object after another: an answer is applied to whatever it shows then.   *)
(* The page follows the answer: componentDidUpdate selects the object that *)
(* the view shows, and a view whose object changes loads it.               *)
(***************************************************************************)
EXTENDS Integers, Sequences, FiniteSets, SequencesExt

CONSTANTS
    Object,      \* identities that the server gives to objects
    New,         \* no e_id: an object that was not saved yet
    Value,       \* what is in an object, but for its name
    Appended,    \* pairs of values: the second has the elements of the first, and more after them
    Name,
    Blank,       \* the value of an object of which only the path is known
    Nobody,      \* no view of an object is open, or undefined
    Call,        \* identities of requests
    Born,        \* the objects that exist at first, under the name First
    First,
    MaxPath      \* bound on the length of the path

ASSUME EntityAssumption ==
    /\ New \notin Object /\ Blank \notin Value
    /\ Nobody \notin [id : Object \cup {New}, value : Value \cup {Blank}, name : Name]
    /\ {"unborn", "deleted"} \cap (Value \cup {Blank}) = {}
    /\ Appended \subseteq Value \X Value
    /\ Born \subseteq Object /\ First \in Name
    /\ MaxPath \in Nat \ {0}

VARIABLES
    path,       \* the path of the address, without the application
    entity,     \* ViewContainer.state.entity
    saved,      \* ViewContainer.state.entity_old
    rows,       \* the objects of the server
    calls,      \* the requests of the view
    crossed     \* two requests for one object were under way together, one that changes
                \* an object failed after it was executed, or an object could not be read
                \* while entity_old was that of an earlier answer (history)

entityVars == <<path, entity, saved, rows, calls, crossed>>

Element == [id : Object \cup {New}, name : Name]
Entity == [id : Object \cup {New}, value : Value \cup {Blank}, name : Name]
Row == [value : Value \cup {Blank}, name : Name]
Idle == [stage |-> "idle"]
Kind == {"load", "save", "copy", "delete", "command"}

EntityTypeOK ==
    /\ path \in Seq(Element) /\ Len(path) <= MaxPath
    /\ {entity, saved} \subseteq Entity \cup {Nobody}
    /\ rows \in [Object -> Row \cup {[value |-> "unborn"], [value |-> "deleted"]}]
    /\ \A c \in Call : calls[c] = Idle \/
          /\ calls[c].stage \in {"sent", "answered", "failed"}
          /\ calls[c].kind \in Kind /\ calls[c].live \in BOOLEAN
          /\ calls[c].of \in Entity
    /\ crossed \in BOOLEAN

HasId == entity # Nobody /\ entity.id # New
Exists(o) == rows[o] \in Row
Busy == \E c \in Call : calls[c] # Idle
Placeholder(e) == [id |-> e.id, value |-> Blank, name |-> e.name]
ElementOf(e) == [id |-> e.id, name |-> e.name]

EntityInit ==
    /\ path = <<>> /\ entity = Nobody /\ saved = Nobody
    /\ rows \in [Object -> {[value |-> "unborn"]} \cup [value : Value, name : {First}]]
    /\ \A o \in Object : Exists(o) <=> o \in Born
    /\ calls = [c \in Call |-> Idle]
    /\ crossed = FALSE

\* addObjectToPath: an object that is in the path already becomes its end.
AddToPath(p, e) ==
    IF e \in ToSet(p) THEN SubSeq(p, 1, CHOOSE i \in DOMAIN p : p[i] = e) ELSE Append(p, e)
Replace(p, e) == AddToPath(IF p = <<>> THEN p ELSE Front(p), e)

\* Of a list, isEntityEquel compares the elements that the first object has: what was
\* appended to it in the second makes no difference.
IsEntityEquel(old, e) ==
    \/ old = e
    \/ /\ old # Nobody /\ e # Nobody
       /\ old.id = e.id /\ old.name = e.name
       /\ <<old.value, e.value>> \in Appended

\* getPromptMessage: the user is asked before the object at the end of the path changes.
Asks == ~IsEntityEquel(saved, entity)

\* Only a save and a command send more than the id of the object.
Send(kind, of) ==
    [stage |-> "sent", kind |-> kind, live |-> TRUE,
     of |-> IF kind \in {"save", "command"} THEN of
            ELSE [id |-> of.id, value |-> Blank, name |-> First]]
Overlaps(rest, of) == \E c \in Call : rest[c] # Idle /\ rest[c].of.id = of.id

-----------------------------------------------------------------------------
(* What the view does when its path or its object changes.                 *)

\* getDerivedStateFromProps and componentDidUpdate with loadEntity: the view shows what is
\* known of another object and loads it.  Leaving for a page without an object unmounts the
\* view, after which its answers no longer reach it.
Open(p, rest, c) ==
    IF p = <<>>
    THEN /\ path' = p /\ entity' = Nobody /\ saved' = Nobody
         /\ calls' = [d \in Call |->
                        IF rest[d] = Idle THEN Idle ELSE [rest[d] EXCEPT !.live = FALSE]]
         /\ crossed' = crossed
    ELSE /\ path' = p
         /\ rest[c] = Idle
         /\ entity' = Placeholder(Last(p))
         /\ saved' = saved
         /\ calls' = IF Last(p).id = New THEN rest
                     ELSE [rest EXCEPT ![c] = Send("load", Last(p))]
         /\ crossed' = (crossed \/ Overlaps(rest, Last(p)))

\* The path changes: a view that shows the object already stays, and puts the name it
\* shows into the path.
Go(p, rest, c) ==
    IF p # <<>> /\ entity # Nobody /\ Last(p).id = entity.id
    THEN /\ path' = Replace(p, ElementOf(entity))
         /\ calls' = rest
         /\ UNCHANGED <<entity, saved, crossed>>
    ELSE Open(p, rest, c)

GoIfAllowed(p, rest, c) ==
    \/ Go(p, rest, c)
    \/ /\ entity # Nobody /\ Asks
       /\ calls' = rest
       /\ UNCHANGED <<path, entity, saved, crossed>>

(* For the mutation checks: an answer does not become entity_old.          *)
ApplyKeepingOld(e, c) ==
    LET rest == [calls EXCEPT ![c] = Idle]
    IN  IF Last(path).id = e.id
        THEN /\ entity' = e /\ saved' = saved
             /\ path' = Replace(path, ElementOf(e))
             /\ calls' = rest
             /\ UNCHANGED crossed
        ELSE /\ path' = Replace(path, ElementOf(e))
             /\ entity' = Placeholder(e) /\ saved' = e
             /\ calls' = [rest EXCEPT ![c] = Send("load", e)]
             /\ crossed' = (crossed \/ Overlaps(rest, e))

\* An answer e: the page follows an object other than the one of the path, which makes the
\* view load it once more (the request that was answered names the new one).
Apply(e, c) ==
    LET rest == [calls EXCEPT ![c] = Idle]
    IN  IF Last(path).id = e.id
        THEN /\ entity' = e /\ saved' = e
             /\ path' = Replace(path, ElementOf(e))
             /\ calls' = rest
             /\ UNCHANGED crossed
        ELSE /\ path' = Replace(path, ElementOf(e))
             /\ entity' = Placeholder(e) /\ saved' = e
             /\ calls' = [rest EXCEPT ![c] = Send("load", e)]
             /\ crossed' = (crossed \/ Overlaps(rest, e))

-----------------------------------------------------------------------------
(* What the user does.                                                     *)

\* A click on an object or a reference to one, on a part of the path, or the browser's
\* buttons; a user who is asked may stay, which changes nothing.
Select(e, c) ==
    /\ Len(AddToPath(path, e)) <= MaxPath
    /\ e.id # New => Exists(e.id)
    /\ Go(AddToPath(path, e), calls, c)
    /\ UNCHANGED rows

Back(n, c) ==
    /\ n < Len(path)
    /\ Go(SubSeq(path, 1, n), calls, c)
    /\ UNCHANGED rows

\* updateEntity: a changed name goes to the path at once.
Edit(v, n) ==
    /\ entity # Nobody
    /\ entity' = [entity EXCEPT !.value = v, !.name = n]
    /\ path' = Replace(path, ElementOf(entity'))
    /\ UNCHANGED <<saved, rows, calls, crossed>>

Begin(c, kind) ==
    /\ entity # Nobody
    /\ calls[c] = Idle
    /\ calls' = [calls EXCEPT ![c] = Send(kind, entity)]
    /\ crossed' = (crossed \/ Overlaps(calls, entity))
    /\ UNCHANGED <<path, entity, saved, rows>>

\* Ctrl+S, which works while requests are under way; the buttons do not.
Save(c) == Begin(c, "save")
Refresh(c) == ~Busy /\ HasId /\ Begin(c, "load")
Copy(c) == ~Busy /\ HasId /\ Begin(c, "copy")
Command(c) == HasId /\ Begin(c, "command")

\* The dialog that asks is opened while nothing is under way, but it outlives the page it
\* was opened on: it may be confirmed at any time, and deletes the object shown then.
Delete(c) == HasId /\ Begin(c, "delete")

-----------------------------------------------------------------------------
(* The server, and the answers.                                            *)

\* What the object becomes.  A value that is missing in a save is erased.
Effect(o, kind, of, v) ==
    CASE kind \in {"load", "copy"} -> rows[o]
      [] kind = "save" -> [value |-> of.value, name |-> of.name]
      [] kind = "delete" -> [value |-> "deleted"]
      [] kind = "command" -> [rows[o] EXCEPT !.value = v]

\* The object a request is answered with: a new one for a copy and for an object without id.
Subject(c, o) ==
    IF calls[c].kind = "copy" \/ calls[c].of.id = New
    THEN rows[o].value = "unborn" ELSE o = calls[c].of.id /\ Exists(o)

Serve(c, o, v) ==
    LET call == calls[c]
        row  == IF call.kind = "copy" /\ Exists(call.of.id) THEN rows[call.of.id]
                ELSE Effect(o, call.kind, call.of, v)
    IN  /\ call.stage = "sent"
        /\ Subject(c, o)
        /\ call.kind = "copy" => Exists(call.of.id)
        /\ rows' = [rows EXCEPT ![o] = row]
        /\ calls' = [calls EXCEPT ![c].stage = "answered",
                                  ![c].of = IF row \in Row
                                            THEN [id |-> o, value |-> row.value, name |-> row.name]
                                            ELSE @]
    /\ UNCHANGED <<path, entity, saved, crossed>>

Fail(c) ==
    /\ calls[c].stage \in {"sent", "answered"}
    /\ crossed' = (crossed \/ calls[c].stage = "answered"
                   \/ (calls[c].kind = "load" /\ saved # Nobody))
    /\ calls' = [calls EXCEPT ![c] = Idle]
    /\ UNCHANGED <<path, entity, saved, rows>>

\* getEntity and save; an unmounted view ignores its answers.
Loaded(c) ==
    /\ calls[c].stage = "answered" /\ calls[c].kind \in {"load", "save"}
    /\ IF calls[c].live THEN Apply(calls[c].of, c)
       ELSE calls' = [calls EXCEPT ![c] = Idle] /\ UNCHANGED <<path, entity, saved, crossed>>
    /\ UNCHANGED rows

\* The copy takes the place of whatever is at the end of the path; a deletion takes the end
\* of the path away; both may ask.
Copied(c) ==
    /\ calls[c].stage = "answered" /\ calls[c].kind = "copy"
    /\ GoIfAllowed(Replace(path, ElementOf(calls[c].of)), [calls EXCEPT ![c] = Idle], c)
    /\ UNCHANGED rows

Deleted(c) ==
    /\ calls[c].stage = "answered" /\ calls[c].kind = "delete"
    /\ GoIfAllowed(IF path = <<>> THEN path ELSE Front(path), [calls EXCEPT ![c] = Idle], c)
    /\ UNCHANGED rows

\* After a command the view selects its object again, whatever the page shows by then, and
\* loads it if it has an id.
Commanded(c) ==
    /\ calls[c].stage = "answered" /\ calls[c].kind = "command"
    /\ LET rest == [calls EXCEPT ![c] = Idle]
       IN  IF calls[c].live
           THEN /\ calls' = IF HasId THEN [rest EXCEPT ![c] = Send("load", entity)] ELSE rest
                /\ crossed' = (crossed \/ (HasId /\ Overlaps(rest, entity)))
                /\ UNCHANGED <<path, entity, saved>>
           ELSE GoIfAllowed(Replace(path, ElementOf(calls[c].of)), rest, c)
    /\ UNCHANGED rows

EntityNext ==
    \/ \E e \in Element, c \in Call : Select(e, c)
    \/ \E n \in 0 .. MaxPath, c \in Call : Back(n, c)
    \/ \E v \in Value, n \in Name : Edit(v, n)
    \/ \E c \in Call : Save(c) \/ Refresh(c) \/ Copy(c) \/ Command(c) \/ Delete(c)
    \/ \E c \in Call, o \in Object, v \in Value : Serve(c, o, v)
    \/ \E c \in Call : Fail(c) \/ Loaded(c) \/ Copied(c) \/ Deleted(c) \/ Commanded(c)

EntitySpec == EntityInit /\ [][EntityNext]_entityVars
-----------------------------------------------------------------------------
(* Properties.                                                             *)

\* When nothing is under way and no two requests crossed, entity_old is not older than the row
\* that the server holds: a page that isEntityEquel can tell from the row asks before it is
\* left.  What it cannot tell, elements appended to a list, is left unasked.
UnsavedIsAsked ==
    ~Busy /\ ~crossed /\ entity # Nobody /\ entity.value # Blank
      /\ entity.id \in {o \in Object : Exists(o)} =>
        \/ Asks
        \/ LET row == rows[entity.id]
           IN  IsEntityEquel([id |-> entity.id, value |-> row.value, name |-> row.name], entity)
=============================================================================
