----------------------------- MODULE PrefsStore -----------------------------
(***************************************************************************)
(* One namespace of the preferences (prefs_store.cpp): a JSON file, the    *)
(* document begin() reads from it, and save(), which every put and remove  *)
(* runs: it writes <path>.tmp and renames it over the file.  Of each       *)
(* operation of the file system only whether it worked is kept; the node   *)
(* may crash between any two.                                              *)
(***************************************************************************)
CONSTANTS Keys,       \* keys of the namespace
          Values,     \* values the puts store
          None,       \* no value: no such key
          Closed,     \* no document
          Torn,       \* a file that was not written to its end
          Absent,     \* no such file
          FlashFull,  \* whether a write may come up short
          LowHeap     \* whether there may be no memory to parse a file

VARIABLES file,     \* <path>
          tmp,      \* <path>.tmp
          doc,      \* _doc
          saving    \* what save() does next: "no" (not running), "open", "write", "rename"

prefsVars == <<file, tmp, doc, saving>>

Docs == [Keys -> Values \cup {None}]
Empty == [k \in Keys |-> None]

PrefsInit == file = Absent /\ tmp = Absent /\ doc = Closed /\ saving = "no"

\* Mistakes used by the project's mutants only.
TruncateInPlace == file' = Torn /\ UNCHANGED tmp

-----------------------------------------------------------------------------
\* load(): a file that is missing or does not parse is an empty document, for
\* want of memory too.
Loaded(f) == IF f \in {Absent, Torn} THEN Empty ELSE f
ReadAs(f) == IF LowHeap THEN {Loaded(f), Empty} ELSE {Loaded(f)}

\* begin() reads d; a temporary file left by a crash is dropped.
Begin(d) == /\ doc = Closed
            /\ d \in ReadAs(file)
            /\ doc' = d
            /\ tmp' = Absent
            /\ UNCHANGED <<file, saving>>

\* A put, or a remove where value is None, up to its call of save().
Edit(key, value) == /\ doc # Closed /\ saving = "no"
                    /\ doc' = [doc EXCEPT ![key] = value]
                    /\ saving' = "open"
                    /\ UNCHANGED <<file, tmp>>

TruncateTmp == tmp' = Torn /\ UNCHANGED file

\* serializeJson into the file, flush and close; none of them is asked
\* whether it worked.
WrittenAs(d) == IF FlashFull THEN {d, Torn} ELSE {d}

\* The steps of save(), each of which may fail and end it.
OpenTmp == /\ saving = "open"
           /\ \/ TruncateTmp /\ saving' = "write"
              \/ UNCHANGED <<file, tmp>> /\ saving' = "no"
           /\ UNCHANGED doc

WriteTmp == /\ saving = "write"
            /\ tmp' \in WrittenAs(doc)
            /\ saving' = "rename"
            /\ UNCHANGED <<file, doc>>

Rename == /\ saving = "rename"
          /\ \/ file' = tmp
             \/ UNCHANGED file
          /\ tmp' = Absent
          /\ saving' = "no"
          /\ UNCHANGED doc

SaveStep == OpenTmp \/ WriteTmp \/ Rename

\* end(): the document is dropped, saved or not.
End == /\ doc # Closed /\ saving = "no"
       /\ doc' = Closed
       /\ UNCHANGED <<file, tmp, saving>>

\* A crash at any place.
LoseDoc == /\ doc' = Closed
           /\ saving' = "no"
           /\ UNCHANGED <<file, tmp>>

-----------------------------------------------------------------------------
PrefsTypeOK == /\ file \in Docs \cup {Absent, Torn}
               /\ tmp \in Docs \cup {Absent, Torn}
               /\ doc \in Docs \cup {Closed}
               /\ saving \in {"no", "open", "write", "rename"}

\* The file is never cut off, and what is about to be renamed over it is the
\* whole document.
FileWhole == /\ file # Torn
             /\ saving # "no" => doc # Closed
             /\ saving = "rename" => tmp = doc
=============================================================================
