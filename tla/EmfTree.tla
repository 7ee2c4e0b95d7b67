------------------------------ MODULE EmfTree ------------------------------
(***************************************************************************)
(* The tree a commit of the emfgit object store holds, and what one        *)
(* operation does to it.  A tree is a directory of entity files            *)
(* (db/ids/<id>) and two directories of index files that the event         *)
(* handlers of emfgit/Database.java keep beside them:                      *)
(*                                                                         *)
(*   ent    db/ids/<id>: the serialized object, or NoEnt                   *)
(*   names  db/idx/type_name/<class>/<name>: the id of the object that has *)
(*          that name in that class, or NoId                               *)
(*   refs   db/idx/ref/<target>/<source>: an empty file per reference      *)
(*                                                                         *)
(* A git revision of a file is the hash of what it holds, so the revision  *)
(* of an entity is modelled by its content.                                *)
(***************************************************************************)
EXTENDS Naturals

CONSTANTS Id,         \* the object ids: 16 random bytes in the code
          Class,      \* the concrete EClasses of the registered packages
          Named,      \* the classes with a qualified name feature
          Descendant, \* a class -> the concrete classes below it, itself included
          Name,       \* the names, EmptyName (the empty string) perhaps among them
          EmptyName,
          NoId,       \* no index file at this path
          NoEnt       \* no entity file for this id

Content == [cls : Class, name : Name, refs : SUBSET Id, val : Nat]
Key     == Class \X Name

ASSUME TreeConstants ==
    /\ Named \subseteq Class
    /\ Descendant \in [Class -> SUBSET Class]
    /\ \A c \in Class : c \in Descendant[c]
    /\ NoId \notin Id
    /\ NoEnt \notin Content

Tree == [ent   : [Id -> Content \cup {NoEnt}],
         names : [Key -> Id \cup {NoId}],
         refs  : SUBSET (Id \X Id)]

EmptyTree == [ent   |-> [i \in Id |-> NoEnt],
              names |-> [k \in Key |-> NoId],
              refs  |-> {}]

Live(t) == {i \in Id : t.ent[i] # NoEnt}

-----------------------------------------------------------------------------
(***************************************************************************)
(* The two indexes.  The reference index looks at the references that      *)
(* leave the object's own resource and whose target can be loaded in the   *)
(* transaction: a reference to a missing object is skipped.                *)
(***************************************************************************)

NameKeys(c) == IF c.cls \in Named THEN {<<c.cls, c.name>>} ELSE {}

RefKeys(t, i, c) == {<<r, i>> : r \in (c.refs \ {i}) \cap Live(t)}

(* The index of names refuses an object whose name is empty.               *)
HasName(c) == c.cls \in Named => c.name # EmptyName

(***************************************************************************)
(* checkUniqueQName, the handler before a save.  On an update the "old"    *)
(* name is read from the object being saved, so it always equals the new   *)
(* one and the handler returns: only a create is looked up.                *)
(***************************************************************************)
QNameIsUnique(t, old, c) ==
    \/ c.cls \notin Named
    \/ old # NoEnt
    \/ \A d \in Descendant[c.cls] : t.names[<<d, c.name>>] = NoId

-----------------------------------------------------------------------------
(***************************************************************************)
(* updateResourceIndexes, the handler after a save.  It refuses to create  *)
(* an index file that exists, unless the old object had it, and deletes    *)
(* the old object's files that the new one does not have.                  *)
(***************************************************************************)
OldNameKeys(old)    == IF old = NoEnt THEN {} ELSE NameKeys(old)
OldRefKeys(t, i, old) == IF old = NoEnt THEN {} ELSE RefKeys(t, i, old)

CanUpdateIndexes(t, i, old, c) ==
    /\ HasName(c)
    /\ \A k \in NameKeys(c) \ OldNameKeys(old) : t.names[k] = NoId
    /\ \A k \in OldNameKeys(old) \ NameKeys(c) : t.names[k] # NoId
    /\ (RefKeys(t, i, c) \ OldRefKeys(t, i, old)) \cap t.refs = {}
    /\ (OldRefKeys(t, i, old) \ RefKeys(t, i, c)) \subseteq t.refs

NamesOnlyAdded(t, i, old, c) ==                                 \* mutant
    [k \in Key |-> IF k \in NameKeys(c) THEN i ELSE t.names[k]]

NamesAfterSave(t, i, old, c) ==
    [k \in Key |-> IF k \in NameKeys(c) THEN i
                   ELSE IF k \in OldNameKeys(old) THEN NoId
                   ELSE t.names[k]]

RefsAfterSave(t, i, old, c) ==
    (t.refs \ OldRefKeys(t, i, old)) \cup RefKeys(t, i, c)

(***************************************************************************)
(* Saving a resource (GitOutputStream.saveResource).  Without an id it is  *)
(* a create, under a fresh id; with an id it is an update of the revision  *)
(* the client names, refused when the file has another one.                *)
(***************************************************************************)
CanCreate(t, i, c) ==
    /\ t.ent[i] = NoEnt
    /\ QNameIsUnique(t, NoEnt, c)
    /\ CanUpdateIndexes(t, i, NoEnt, c)

RevisionMatches(t, i, rev) == rev = t.ent[i]

CanUpdate(t, i, rev, c) ==
    /\ t.ent[i] # NoEnt
    /\ QNameIsUnique(t, t.ent[i], c)
    /\ RevisionMatches(t, i, rev)
    /\ CanUpdateIndexes(t, i, t.ent[i], c)

Saved(t, i, c) ==
    [ent   |-> [t.ent EXCEPT ![i] = c],
     names |-> NamesAfterSave(t, i, t.ent[i], c),
     refs  |-> RefsAfterSave(t, i, t.ent[i], c)]

(***************************************************************************)
(* Deleting a resource (GitHandler.delete): checkDependencies, then        *)
(* deleteResourceIndexes, then the entity file at the revision of the URI. *)
(***************************************************************************)
IsReferencedByNone(t, i) == FALSE                               \* mutant

IsReferenced(t, i) == \E s \in Id : <<i, s>> \in t.refs

CanDelete(t, i, rev) ==
    /\ t.ent[i] # NoEnt
    /\ ~IsReferenced(t, i)
    /\ \A k \in NameKeys(t.ent[i]) : t.names[k] # NoId
    /\ RefKeys(t, i, t.ent[i]) \subseteq t.refs
    /\ RevisionMatches(t, i, rev)

Deleted(t, i) ==
    [ent   |-> [t.ent EXCEPT ![i] = NoEnt],
     names |-> [k \in Key |-> IF k \in NameKeys(t.ent[i]) THEN NoId ELSE t.names[k]],
     refs  |-> t.refs \ RefKeys(t, i, t.ent[i])]

(***************************************************************************)
(* reindex: throw the index away and enter every object again.  It stops   *)
(* with an error at the second object that has the same class and name.    *)
(***************************************************************************)
CanReindex(t) ==
    \A i, j \in Live(t) :
        NameKeys(t.ent[i]) \cap NameKeys(t.ent[j]) # {} => i = j

(* Git keeps no empty directory: without an entry there is no db/idx.      *)
HasIndexes(t) == t.refs # {} \/ \E k \in Key : t.names[k] # NoId

Reindexed(t) ==
    [ent   |-> t.ent,
     names |-> [k \in Key |->
                  IF \E i \in Live(t) : k \in NameKeys(t.ent[i])
                  THEN CHOOSE i \in Live(t) : k \in NameKeys(t.ent[i])
                  ELSE NoId],
     refs  |-> UNION {RefKeys(t, i, t.ent[i]) : i \in Live(t)}]

-----------------------------------------------------------------------------
(***************************************************************************)
(* What the indexes are for.  A lookup by class and name finds an object   *)
(* exactly when it is there, so that no two objects of a class share a     *)
(* name; the reference index lists exactly the references between objects  *)
(* that exist.                                                             *)
(***************************************************************************)
NamesExact(t) ==
    \A k \in Key, i \in Id :
        t.names[k] = i <=> i \in Live(t) /\ k \in NameKeys(t.ent[i])

RefsExact(t) ==
    \A r, s \in Id :
        <<r, s>> \in t.refs
            <=> s \in Live(t) /\ r \in Live(t) /\ r # s /\ r \in t.ent[s].refs

Consistent(t) == NamesExact(t) /\ RefsExact(t)

(* No object of the tree refers to an id: how a fresh random id is.        *)
Unmentioned(t, i) == \A s \in Live(t) : i \notin t.ent[s].refs
=============================================================================
