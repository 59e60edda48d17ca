-------------------------------- MODULE Notes -------------------------------
(***************************************************************************)
(* The notes of useNotes: lists under cockpit:notes:<name> in the          *)
(* browser's local storage, the single legacy notes under                  *)
(* cockpit:note:<name>, and what each open page holds of them.  A name is  *)
(* a symbol (stock list: addNote, deleteNote) or a signal's id (live view: *)
(* saveNote).  A note is a number; 0 is the legacy note of its name.       *)
(***************************************************************************)
EXTENDS Naturals, Sequences, SequencesExt

CONSTANTS
  Pages,
  Symbols, SignalIds,
  LegacyNames,  \* the names with a legacy note, which nothing removes
  None,
  MaxNotes      \* bound: notes written

NotesAssumption == MaxNotes \in Nat /\ LegacyNames \subseteq Symbols \union SignalIds

Names == Symbols \union SignalIds

VARIABLES
  stored,   \* the list under a name's key, <<>> for none
  open,     \* the pages open
  entries,  \* noteEntries of a page
  draft,    \* of a page's NoteBar or NoteModal: None or [name, text]
  written,  \* notes so far
  alive,    \* history: notes that were written and not deleted or replaced
  crossed   \* history: names written by a page that did not hold the notes alive

notesVars == <<stored, open, entries, draft, written, alive, crossed>>

Note == 0 .. MaxNotes

TypeOK ==
  /\ stored \in [Names -> Seq(Note)] /\ entries \in [Pages -> [Names -> Seq(Note)]]
  /\ open \subseteq Pages /\ written \in Note
  /\ draft \in [Pages -> [name : SignalIds, text : Note \union {None}] \union {None}]
  /\ alive \in [Names -> SUBSET Note] /\ crossed \subseteq Names

Init ==
  /\ stored = [n \in Names |-> <<>>] /\ open = {} /\ written = 0 /\ crossed = {}
  /\ entries = [p \in Pages |-> [n \in Names |-> <<>>]] /\ draft = [p \in Pages |-> None]
  /\ alive = [n \in Names |-> IF n \in LegacyNames THEN {0} ELSE {}]

-----------------------------------------------------------------------------
\* Mutant: the legacy note wins over the list.
LegacyFirst(n) == IF n \in LegacyNames THEN <<0>> ELSE stored[n]

\* initEntries: the legacy note counts when there is no list.
Loaded(n) == IF stored[n] = <<>> /\ n \in LegacyNames THEN <<0>> ELSE stored[n]

OpenPage(p) ==
  /\ p \notin open /\ open' = open \union {p}
  /\ entries' = [entries EXCEPT ![p] = [n \in Names |-> Loaded(n)]]
  /\ UNCHANGED <<stored, draft, written, alive, crossed>>

ClosePage(p) ==
  /\ p \in open /\ open' = open \ {p}
  /\ entries' = [entries EXCEPT ![p] = [n \in Names |-> <<>>]] /\ draft' = [draft EXCEPT ![p] = None]
  /\ UNCHANGED <<stored, written, alive, crossed>>

\* persist: the page's list replaces the stored one, whatever that has become.
Persist(p, n, list) ==
  /\ entries' = [entries EXCEPT ![p][n] = list]
  /\ stored' = [stored EXCEPT ![n] = list]
  /\ crossed' = IF ToSet(entries[p][n]) = alive[n] THEN crossed ELSE crossed \union {n}
  /\ UNCHANGED open

\* submit and addNote: the newest note comes first.
AddNote(p, n) ==
  /\ p \in open /\ n \in Symbols /\ written < MaxNotes
  /\ written' = written + 1
  /\ Persist(p, n, <<written'>> \o entries[p][n])
  /\ alive' = [alive EXCEPT ![n] = @ \union {written'}]
  /\ UNCHANGED draft

\* The ids of a list differ: one note leaves it.
DeleteNote(p, n, i) ==
  /\ p \in open /\ n \in Symbols
  /\ Persist(p, n, RemoveAt(entries[p][n], i))
  /\ alive' = [alive EXCEPT ![n] = @ \ {entries[p][n][i]}]
  /\ UNCHANGED <<draft, written>>

\* A draft starts as the note shown, the first of the list.
StartEdit(p, n) ==
  /\ p \in open /\ n \in SignalIds /\ draft[p] = None
  /\ draft' = [draft EXCEPT ![p] = [name |-> n, text |-> IF entries[p][n] = <<>> THEN None ELSE Head(entries[p][n])]]
  /\ UNCHANGED <<stored, open, entries, written, alive, crossed>>

\* Another text, or none.
ChangeDraft(p) ==
  /\ draft[p] # None /\ written < MaxNotes
  /\ written' = written + 1
  /\ \E text \in {written', None} : draft' = [draft EXCEPT ![p].text = text]
  /\ UNCHANGED <<stored, open, entries, alive, crossed>>

CancelEdit(p) ==
  /\ draft[p] # None /\ draft' = [draft EXCEPT ![p] = None]
  /\ UNCHANGED <<stored, open, entries, written, alive, crossed>>

\* commit and saveNote: the draft replaces the list, an empty one removes it.
SaveNote(p) ==
  /\ draft[p] # None
  /\ LET d == draft[p]
         list == IF d.text = None THEN <<>> ELSE <<d.text>>
     IN Persist(p, d.name, list) /\ alive' = [alive EXCEPT ![d.name] = ToSet(list)]
  /\ draft' = [draft EXCEPT ![p] = None]
  /\ UNCHANGED written

Next ==
  \E p \in Pages :
    \/ OpenPage(p) \/ ClosePage(p) \/ ChangeDraft(p) \/ CancelEdit(p) \/ SaveNote(p)
    \/ \E n \in Names : AddNote(p, n) \/ StartEdit(p, n) \/ \E i \in DOMAIN entries[p][n] : DeleteNote(p, n, i)

Spec == Init /\ [][Next]_notesVars

-----------------------------------------------------------------------------
(* Properties.                                                             *)

\* A page opened now has every note that was written and not taken away, and no
\* other, except under a name that a page wrote without holding just those (after
\* a write of another page, or with a legacy note come back); and a legacy note
\* comes back when its list is empty.
NotesKept ==
  \A n \in Names \ crossed :
    \/ ToSet(Loaded(n)) = alive[n]
    \/ n \in LegacyNames /\ alive[n] = {} /\ Loaded(n) = <<0>>
=============================================================================
