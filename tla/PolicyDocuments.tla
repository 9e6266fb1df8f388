--------------------------- MODULE PolicyDocuments ---------------------------
(***************************************************************************)
(* The checklist a case gets from the components of its policy             *)
(* (documentation.service, with the presets of case-type.service).  A      *)
(* selected component requires what its active presets name; presets of    *)
(* several components with one dedupeKey share one requirement, and links  *)
(* (DocCaseDocumentComponentSource) record which presets stand behind it.  *)
(* A save holds the case row from reading the checklist to its commit, and *)
(* reads the presets of one component after the other and the traces on a  *)
(* requirement before it retires it.  The catalog is edited, and a trace   *)
(* is left on a requirement, without that lock; a preset is propagated     *)
(* from what was read before the lock.                                     *)
(***************************************************************************)
EXTENDS Naturals, FiniteSets

CONSTANTS
    Caller,          \* requests the server may be handling at the same time
    NoCaller,
    Component,    \* the components of the policy
    Preset,       \* CaseTypeComponentDocument rows that may ever exist (finite model)
    Key,          \* normalised document names
    componentOf,  \* preset -> component
    keyOf,        \* preset -> dedupeKey, immutable
    MaxDoc        \* requirements the case may ever have (finite model)

Doc == 1..MaxDoc

ASSUME CatalogAssumption == componentOf \in [Preset -> Component] /\ keyOf \in [Preset -> Key]
ASSUME DocAssumption == MaxDoc \in Nat
ASSUME CallerAssumption == NoCaller \notin Caller

VARIABLES
    assignable,  \* the case's status is one of ASSIGN_ALLOWED_STATUSES
    preset,      \* the presets
    selected,    \* components with an active DocCasePolicyComponent row
    link,        \* the link of each preset, if its component was ever materialised
    doc,         \* the case's DocCaseDocument rows
    lock,        \* who holds the DocCase row
    doing,       \* what each open request is doing
    edited       \* history: the presets edited after the save that is open had read them

checklistVars == <<assignable, preset, selected, link, doc, lock, doing, edited>>

PresetRow == [state : {"absent", "active", "archived", "deleted"}, isMandatory : BOOLEAN]

NoDoc == 0
\* Also a link that was dropped: what it held is written anew before it is read again.
NoLink == [doc |-> NoDoc, isMandatory |-> FALSE, live |-> FALSE]
Source == [doc : Doc, isMandatory : BOOLEAN, live : {TRUE}]

\* touched: has files, notes, events, a decision, or was shown to the client.
Unused == [state |-> "unused"]
DocCaseDocument == [state : {"live", "retired"}, name : Key, keyed : BOOLEAN, manual : BOOLEAN,
                    isMandatory : BOOLEAN, touched : BOOLEAN]

NoWork == [pc |-> "idle"]
Found == [Key -> Doc \cup {NoDoc}]
Links == [Preset -> Source \cup {NoLink}]
\* toRead: the selected components whose presets are still to be read; required, mandatory:
\* the active presets that were read; was, traced: the links and the requirements with a
\* trace that the reconciliation read.
Work == [pc : {"save"}, sel : SUBSET Component, found : Found, toRead : SUBSET Component,
         required : SUBSET Preset, mandatory : SUBSET Preset]
        \cup [pc : {"retire"}, sel : SUBSET Component, found : Found,
              required : SUBSET Preset, mandatory : SUBSET Preset, was : Links, traced : SUBSET Doc]
        \cup [pc : {"read"}, p : Preset, isMandatory : BOOLEAN]
        \cup [pc : {"propagate"}, p : Preset, isMandatory : BOOLEAN, found : Found]

ChecklistInit ==
    /\ assignable = TRUE
    /\ preset = [p \in Preset |-> [state |-> "absent", isMandatory |-> FALSE]]
    /\ selected = {}
    /\ link = [p \in Preset |-> NoLink]
    /\ doc = [d \in Doc |-> Unused]
    /\ lock = NoCaller
    /\ doing = [t \in Caller |-> NoWork]
    /\ edited = {}

-----------------------------------------------------------------------------
At(t, pc) == doing[t].pc = pc
Do(t, work) == doing' = [doing EXCEPT ![t] = work]

Used(d) == doc[d] # Unused
Keyed(k) == {d \in Doc : Used(d) /\ doc[d].keyed /\ doc[d].name = k}
Live(d) == doc[d].state = "live"

\* A manual requirement that a preset may adopt: live, without a key of its own.
Adoptable(k) == {d \in Doc : Live(d) /\ ~doc[d].keyed /\ doc[d].manual /\ doc[d].name = k}

First(S) == CHOOSE d \in S : \A e \in S : d <= e

\* The row that carries the key, live before retired; else one to adopt; else none.
Find(k) ==
    CASE \E d \in Keyed(k) : Live(d) -> First({d \in Keyed(k) : Live(d)})
      [] Keyed(k) # {} /\ \A d \in Keyed(k) : ~Live(d) -> First(Keyed(k))
      [] Keyed(k) = {} /\ Adoptable(k) # {} -> First(Adoptable(k))
      [] OTHER -> NoDoc

Snapshot == [k \in Key |-> Find(k)]

\* The rows the presets ps end up on: what was found, or new rows for the keys that had none.
Targets(ps, found) ==
    LET keys == {keyOf[p] : p \in ps}
        new == {k \in keys : found[k] = NoDoc}
    IN {target \in [keys -> Doc] :
          /\ \A k \in keys \ new : target[k] = found[k]
          /\ \A k \in new : doc[target[k]] = Unused
          /\ \A k, l \in new : target[k] = target[l] => k = l
          /\ \A k \in new : \A d \in 1..(target[k] - 1) :
               doc[d] # Unused \/ \E l \in new : target[l] = d}

\* find, revive, adopt or create
Materialized(d, k) ==
    IF Used(d) THEN [doc[d] EXCEPT !.state = "live", !.keyed = TRUE]
    ELSE [state |-> "live", name |-> k, keyed |-> TRUE, manual |-> FALSE, isMandatory |-> FALSE, touched |-> FALSE]

Sources(links, d) == {p \in Preset : links[p].live /\ links[p].doc = d}

Traced == {d \in Doc : Used(d) /\ doc[d].touched}

\* Mutant: a requirement that a file or a note was added to is taken for untouched.
ReconciledAnyway(row, links, traced, d) ==
    IF Sources(links, d) # {}
    THEN [row EXCEPT !.state = "live", !.isMandatory = \E p \in Sources(links, d) : links[p].isMandatory]
    ELSE [row EXCEPT !.isMandatory = FALSE, !.state = IF row.manual \/ ~row.keyed THEN row.state ELSE "retired"]

\* Mandatory if a source says so; without sources, retired if it came from the
\* component system and had no trace when it was read.
Reconciled(row, links, traced, d) ==
    IF Sources(links, d) # {}
    THEN [row EXCEPT !.state = "live", !.isMandatory = \E p \in Sources(links, d) : links[p].isMandatory]
    ELSE [row EXCEPT !.isMandatory = FALSE,
                     !.state = IF row.manual \/ ~row.keyed \/ d \in traced THEN row.state ELSE "retired"]

\* The checklist once the targets are materialised and the rows in touched reconciled, with
\* the links and the traces that were read.
Checklist(links, traced, target, touched) ==
    [d \in Doc |->
        LET keys == {k \in DOMAIN target : target[k] = d}
            row == IF keys = {} THEN doc[d] ELSE Materialized(d, CHOOSE k \in keys : TRUE)
        IN IF d \in touched THEN Reconciled(row, links, traced, d) ELSE row]

-----------------------------------------------------------------------------
(* Saving the policy of a case.                                             *)

Saving(sel) ==
    [pc |-> "save", sel |-> sel, found |-> Snapshot, toRead |-> sel, required |-> {}, mandatory |-> {}]

\* Mutant: the case row is not locked.
BeginUnlocked(t, sel) ==
    /\ At(t, "idle")
    /\ assignable
    /\ Do(t, Saving(sel))
    /\ UNCHANGED <<assignable, preset, selected, link, doc, lock, edited>>

\* Any selection: which components are active in the catalog, and so may be newly selected,
\* is not modelled, and a save that names another policy instead selects none of these.
\* reconcileCaseComponentDocuments is a save of what is selected.
BeginAssign(t, sel) ==
    /\ At(t, "idle")
    /\ lock = NoCaller
    /\ assignable
    /\ lock' = t
    /\ Do(t, Saving(sel))
    /\ UNCHANGED <<assignable, preset, selected, link, doc, edited>>

\* Mutant: the presets of a selection that was materialised before are not read again.
AsksOnce(c) == {p \in Preset : preset[p].state = "active" /\ componentOf[p] = c /\ c \notin selected}
\* What a component requires.
Asks(c) == {p \in Preset : preset[p].state = "active" /\ componentOf[p] = c}

\* The presets of one component are read, and their links written.
ReadPresets(t, c) ==
    /\ At(t, "save") /\ c \in doing[t].toRead
    /\ Do(t, [doing[t] EXCEPT !.toRead = @ \ {c}, !.required = @ \cup Asks(c),
                              !.mandatory = @ \cup {p \in Asks(c) : preset[p].isMandatory}])
    /\ UNCHANGED <<assignable, preset, selected, link, doc, lock, edited>>

\* The reconciliation reads who stands behind the requirements, and what was done on them.
ReadTraces(t) ==
    LET w == doing[t] IN
    /\ At(t, "save") /\ w.toRead = {}
    /\ Do(t, [pc |-> "retire", sel |-> w.sel, found |-> w.found, required |-> w.required,
              mandatory |-> w.mandatory, was |-> link, traced |-> Traced])
    /\ UNCHANGED <<assignable, preset, selected, link, doc, lock, edited>>

\* Links of deselected components go, required presets are linked with the values that
\* were read, links of archived presets stay.
Dropped(w) == {p \in Preset : componentOf[p] \notin w.sel /\ link[p].live}
SavedLinks(w, links, target) ==
    [p \in Preset |->
        CASE p \in w.required -> [doc |-> target[keyOf[p]], isMandatory |-> p \in w.mandatory, live |-> TRUE]
          [] p \notin w.required /\ componentOf[p] \notin w.sel -> NoLink
          [] OTHER -> links[p]]

Unlock(t) == lock' = IF lock = t THEN NoCaller ELSE lock

CommitAssign(t) ==
    LET w == doing[t] IN
    /\ At(t, "retire")
    /\ \E target \in Targets(w.required, w.found) :
         /\ link' = SavedLinks(w, link, target)
         /\ doc' = Checklist(SavedLinks(w, w.was, target), w.traced, target,
                             {link[p].doc : p \in Dropped(w)} \cup {target[k] : k \in DOMAIN target})
    /\ selected' = w.sel
    /\ Unlock(t) /\ edited' = {}
    /\ Do(t, NoWork)
    /\ UNCHANGED <<assignable, preset>>

-----------------------------------------------------------------------------
(* The catalog, and pushing one preset into the case.                       *)

\* An open save has read the presets of the component.
HasRead(t, c) == \/ At(t, "save") /\ c \in doing[t].sel \ doing[t].toRead
                 \/ At(t, "retire") /\ c \in doing[t].sel
Edit(p, state, isMandatory) ==
    /\ preset' = [preset EXCEPT ![p] = [state |-> state, isMandatory |-> isMandatory]]
    /\ edited' = IF \E t \in Caller : HasRead(t, componentOf[p]) THEN edited \cup {p} ELSE edited

\* assertNoDuplicateActiveDedupeKey: within one component a key has one active preset.
KeyTaken(p) ==
    \E q \in Preset \ {p} :
        preset[q].state = "active" /\ componentOf[q] = componentOf[p] /\ keyOf[q] = keyOf[p]

CreateComponentDocument(p, isMandatory) ==
    /\ preset[p].state = "absent"
    /\ ~KeyTaken(p)
    /\ Edit(p, "active", isMandatory)
    /\ UNCHANGED <<assignable, selected, link, doc, lock, doing>>

\* The flag of an archived preset is left out: it is not read, and the edit that makes the
\* preset active again may set it.
UpdateComponentDocument(p, state, isMandatory) ==
    /\ preset[p].state \in {"active", "archived"}
    /\ preset[p].state = "archived" /\ state = "active" => ~KeyTaken(p)
    /\ Edit(p, state, isMandatory /\ state = "active")
    /\ UNCHANGED <<assignable, selected, link, doc, lock, doing>>

\* The link of the preset was written by a save that is not committed.
Written(p) ==
    \E t \in Caller : /\ At(t, "save") \/ At(t, "retire")
                      /\ p \in doing[t].required \cup Dropped(doing[t])

\* Mutant: the requirement goes with the preset.
DeleteWithRequirement(p) ==
    /\ preset[p].state \in {"active", "archived"} /\ ~Written(p)
    /\ Edit(p, "deleted", FALSE)
    /\ link' = [link EXCEPT ![p] = NoLink]
    /\ doc' = [d \in Doc |-> IF d = link[p].doc THEN [doc[d] EXCEPT !.state = "retired"] ELSE doc[d]]
    /\ UNCHANGED <<assignable, selected, lock, doing>>

\* The preset goes with its links, once no save has written one; the requirements stay as
\* they are.
DeleteComponentDocument(p) ==
    /\ preset[p].state \in {"active", "archived"} /\ ~Written(p)
    /\ Edit(p, "deleted", FALSE)
    /\ link' = [link EXCEPT ![p] = NoLink]
    /\ UNCHANGED <<assignable, selected, doc, lock, doing>>

\* The preset and the selections are read before any lock is taken.
BeginPropagate(t, p) ==
    /\ At(t, "idle")
    /\ preset[p].state = "active"
    /\ componentOf[p] \in selected
    /\ Do(t, [pc |-> "read", p |-> p, isMandatory |-> preset[p].isMandatory])
    /\ UNCHANGED <<assignable, preset, selected, link, doc, lock, edited>>

\* The case is skipped, and the request ends, when it may not be assigned to.
LockPropagate(t) ==
    /\ At(t, "read")
    /\ lock = NoCaller
    /\ IF assignable
       THEN /\ lock' = t
            /\ Do(t, [pc |-> "propagate", p |-> doing[t].p, isMandatory |-> doing[t].isMandatory, found |-> Snapshot])
       ELSE lock' = lock /\ Do(t, NoWork)
    /\ UNCHANGED <<assignable, preset, selected, link, doc, edited>>

\* The foreign key refuses a link to a preset that was deleted.
CommitPropagate(t) ==
    /\ At(t, "propagate")
    /\ preset[doing[t].p].state \in {"active", "archived"}
    /\ \E target \in Targets({doing[t].p}, doing[t].found) :
         LET d == target[keyOf[doing[t].p]]
             links == [link EXCEPT ![doing[t].p] = [doc |-> d, isMandatory |-> doing[t].isMandatory, live |-> TRUE]]
         IN /\ link' = links
            /\ doc' = Checklist(links, Traced, target, {d})
    /\ Unlock(t)
    /\ Do(t, NoWork)
    /\ UNCHANGED <<assignable, preset, selected, edited>>

-----------------------------------------------------------------------------
(* The rest of what happens to the checklist.                               *)

\* The recalculation at the end of the request waits for the case row.  The flag it is given
\* is left out: an adopted requirement gets that of its sources.
AddDocumentToCase(name) ==
    /\ assignable
    /\ lock = NoCaller
    /\ \E d \in Doc :
        /\ doc[d] = Unused /\ \A e \in 1..(d - 1) : doc[e] # Unused
        /\ doc' = [doc EXCEPT ![d] = [state |-> "live", name |-> name, keyed |-> FALSE, manual |-> TRUE,
                                      isMandatory |-> FALSE, touched |-> FALSE]]
    /\ UNCHANGED <<assignable, preset, selected, link, lock, doing, edited>>

\* A file, a link to one, a note, a decision, or setDocumentVisibility: all that leaves a
\* trace on a requirement.  It is written by id, whatever became of the requirement since it
\* was found.  addStorageRef does not write the case row, and what does writes it after the
\* requirement: no save keeps a trace from coming in between.
LeaveTrace(d) ==
    /\ Used(d)
    /\ doc' = [doc EXCEPT ![d].touched = TRUE]
    /\ UNCHANGED <<assignable, preset, selected, link, lock, doing, edited>>

MoveCase ==
    /\ lock = NoCaller
    /\ assignable' = ~assignable
    /\ UNCHANGED <<preset, selected, link, doc, lock, doing, edited>>

Fail(t) ==
    /\ ~At(t, "idle")
    /\ Unlock(t) /\ edited' = IF lock = t THEN {} ELSE edited
    /\ Do(t, NoWork)
    /\ UNCHANGED <<assignable, preset, selected, link, doc>>

-----------------------------------------------------------------------------
Catalog ==
    \/ \E p \in Preset, m \in BOOLEAN : CreateComponentDocument(p, m)
    \/ \E p \in Preset, s \in {"active", "archived"}, m \in BOOLEAN : UpdateComponentDocument(p, s, m)
    \/ \E p \in Preset : DeleteComponentDocument(p)

CaseRequest(t) ==
    \/ \E sel \in SUBSET Component : BeginAssign(t, sel)
    \/ \E c \in Component : ReadPresets(t, c)
    \/ ReadTraces(t)
    \/ CommitAssign(t)
    \/ \E p \in Preset : BeginPropagate(t, p)
    \/ LockPropagate(t)
    \/ CommitPropagate(t)
    \/ Fail(t)

ChecklistNext ==
    \/ Catalog
    \/ \E t \in Caller : CaseRequest(t)
    \/ \E k \in Key : AddDocumentToCase(k)
    \/ \E d \in Doc : LeaveTrace(d)
    \/ MoveCase

ChecklistSpec == ChecklistInit /\ [][ChecklistNext]_checklistVars

-----------------------------------------------------------------------------
\* Every reachable value has its type.
ChecklistTypeOK ==
    /\ assignable \in BOOLEAN
    /\ preset \in [Preset -> PresetRow]
    /\ selected \subseteq Component
    /\ link \in Links
    /\ doc \in [Doc -> DocCaseDocument \cup {Unused}]
    /\ lock \in Caller \cup {NoCaller}
    /\ doing \in [Caller -> Work \cup {NoWork}]
    /\ edited \subseteq Preset

\* One requirement per key, live and retired together: saves and propagations of presets
\* that share a key never make two, and a file uploaded once satisfies every component.
OneRequirementPerKey == \A k \in Key : Cardinality(Keyed(k)) <= 1

\* What a link stands behind is on the checklist under the preset's key, whoever
\* deselected, archived, deleted or propagated something meanwhile.
LinkedIsLive ==
    \A p \in Preset : link[p].live =>
        Live(link[p].doc) /\ doc[link[p].doc].keyed /\ doc[link[p].doc].name = keyOf[p]

\* A save leaves the checklist as the catalog asks, whatever propagations, deletions and
\* edits of the catalog came before it or between its reads: every active preset of a
\* selected component has its requirement, with the preset's own flag, unless that preset
\* itself was edited after it was read; no deselected component requires anything; and a
\* requirement that is asked for is mandatory if and only if one of its sources is, unless
\* a source was deleted after it was read.
SaveHeals ==
    [][\A t \in Caller : CommitAssign(t) =>
         /\ \A p \in Preset :
              preset[p].state = "active" /\ componentOf[p] \in selected' /\ p \notin edited =>
                  link'[p].live /\ link'[p].isMandatory = preset[p].isMandatory
         /\ \A p \in Preset : link'[p].live => componentOf[p] \in selected'
         /\ link = doing[t].was => \A p \in doing[t].required :
              doc'[link'[p].doc].isMandatory <=>
                  \E q \in Sources(link, link[p].doc)' : link'[q].isMandatory]_checklistVars

\* What is worked on stays what it was: its name, its origin, its key once it has one, its
\* trace.  With a trace, or added by hand, it stays on the checklist, whatever is saved,
\* propagated, deselected, archived or deleted, unless the trace was left after the save
\* that retires it had looked for one.
RequirementsStay ==
    [][\A d \in Doc : Used(d) =>
         /\ Used(d)' /\ doc'[d].name = doc[d].name /\ doc'[d].manual = doc[d].manual
         /\ doc[d].keyed => doc'[d].keyed
         /\ doc[d].touched => doc'[d].touched
         /\ Live(d) /\ ~Live(d)' =>
              /\ ~doc[d].manual
              /\ doc[d].touched => \E t \in Caller : CommitAssign(t) /\ d \notin doing[t].traced]_checklistVars
=============================================================================
