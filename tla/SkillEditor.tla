----------------------------- MODULE SkillEditor -----------------------------
(***************************************************************************)
(* SkillEditor (backend/app/skill/editor.py): sessions that edit the files *)
(* of one workspace, with explicit saves, auto-save and saves on close.    *)
(*                                                                         *)
(* A save awaits a thread for opening, writing and closing the file, and   *)
(* other coroutines run in between; so does a read.  Cancelling a save     *)
(* stops the coroutine and not the thread: what the thread was asked for   *)
(* happens later, or never.  Everything else runs without a suspension.    *)
(* The events of the editor name types that EventType does not define:     *)
(* publishing raises, always after the last change of state, so that       *)
(* methods fail having done their work.  Results are left out.             *)
(***************************************************************************)
EXTENDS Integers, FiniteSets

CONSTANTS
    Sessions,     \* each is created at most once
    Users, User,  \* and belongs to a user
    Files,
    Contents,     \* what a user may type (or nothing), and a workspace file may hold
    Invalid,      \* contents the syntax check of save_file refuses
    Formatted,    \* what format_file makes of a content
    Empty,        \* no text: also of a file opened for writing and not written yet
    Mixed,        \* one text written over another, longer one
    None,
    Openers,      \* open_file calls that may be under way at once
    AutoSave,     \* the session setting "auto_save"
    Uses,         \* which of "save", "close", "close_session", "format" clients use
    MaxUpdates    \* bound: edits in a behaviour

ASSUME EditorConstants ==
    /\ User \in [Sessions -> Users]
    /\ Invalid \subseteq Contents \cup {Mixed}
    /\ LET Text == Contents \cup {Empty, Mixed} IN Formatted \in [Text -> Text]
    /\ Empty \notin Contents \cup {Mixed}
    /\ None \notin Sessions \cup Users \cup Files
    /\ AutoSave \in BOOLEAN
    /\ MaxUpdates \in Nat

VARIABLES
    created,     \* sessions ever made
    sessions,    \* those that are not closed
    files,       \* the files open in each
    content,     \* what each session shows of each file
    is_modified,
    disk,        \* the workspace
    file_locks,  \* who locked each file
    opening,     \* open_file calls that wait for the content
    save,        \* the saves of each session: explicit, automatic, on close
    closing,     \* the session whose close_session holds _lock
    todo,        \* files it has not looked at yet
    updates,
    late,        \* what threads may still do to each file for cancelled saves,
                 \* and how often: write a text, or (Empty) truncate the file
    overwritten, \* history: files they did it to since their last save began
    crossed      \* history: files something else was done to while they were
                 \* read or saved, that another session had open when they
                 \* were saved, or that were changed with no save to follow

editor_vars == <<created, sessions, files, content, is_modified, disk, file_locks,
          opening, save, closing, todo, updates, late, overwritten, crossed>>

Text == Contents \cup {Empty, Mixed}
Slots == {"save", "auto", "close"}

\* own: the open file of the session is still the one being saved
SaveState == [at : {"idle", "asleep", "begun", "opened", "writing", "flushed"},
              file : Files \cup {None}, text : Text, own : BOOLEAN]
NoSave == [at |-> "idle", file |-> None, text |-> Empty, own |-> FALSE]
NoOpening == [session |-> None, file |-> None, text |-> Empty, unlocked |-> FALSE]

EditorTypeOK ==
    /\ sessions \subseteq created /\ created \subseteq Sessions
    /\ files \in [Sessions -> SUBSET Files]
    /\ content \in [Sessions -> [Files -> Text]]
    /\ is_modified \in [Sessions -> [Files -> BOOLEAN]]
    /\ disk \in [Files -> Text]
    /\ file_locks \in [Files -> Users \cup {None}]
    /\ opening \in [Openers -> {NoOpening} \cup
                      [session : Sessions, file : Files, text : Text, unlocked : BOOLEAN]]
    /\ save \in [Sessions -> [Slots -> SaveState]]
    /\ closing \in sessions \cup {None}
    /\ todo \subseteq Files
    /\ updates \in 0..MaxUpdates
    /\ late \in [Files -> [Text -> Nat]]
    /\ overwritten \subseteq Files /\ crossed \subseteq Files

EditorInit ==
    /\ created = {} /\ sessions = {}
    /\ files = [s \in Sessions |-> {}]
    /\ content = [s \in Sessions |-> [f \in Files |-> Empty]]
    /\ is_modified = [s \in Sessions |-> [f \in Files |-> FALSE]]
    /\ disk \in {[f \in Files |-> c] : c \in Contents}
    /\ file_locks = [f \in Files |-> None]
    /\ opening = [o \in Openers |-> NoOpening]
    /\ save = [s \in Sessions |-> [k \in Slots |-> NoSave]]
    /\ closing = None
    /\ todo = {}
    /\ updates = 0
    /\ late = [f \in Files |-> [t \in Text |-> 0]]
    /\ overwritten = {} /\ crossed = {}

CreateSession(s) ==
    /\ s \notin created
    /\ created' = created \cup {s}
    /\ sessions' = sessions \cup {s}
    /\ UNCHANGED <<files, content, is_modified, disk, file_locks, opening, save,
                   closing, todo, updates, late, overwritten, crossed>>

Unwritten == {"begun", "opened"}
Active == Unwritten \cup {"writing", "flushed"}
SavedBy(f, slots) ==
    \E s \in Sessions, k \in slots : save[s][k].file = f /\ save[s][k].at \in Active
Saving(f) == SavedBy(f, Slots)
BeingRead(f) == \E o \in Openers : opening[o].file = f
OpenElsewhere(s, f) == \E r \in sessions \ {s} : f \in files[r]

-----------------------------------------------------------------------------
(* open_file and close_file *)

\* saves of the file object that session s is about to lose go on with it
Detach(s, f) ==
    [save EXCEPT ![s] = [k \in Slots |->
        IF save[s][k].file = f /\ save[s][k].at \in Active
        THEN [save[s][k] EXCEPT !.own = FALSE,
                !.text = IF save[s][k].at \in Unwritten /\ save[s][k].own
                         THEN content[s][f] ELSE @]
        ELSE save[s][k]]]

OpenRead(o, s, f) ==
    /\ opening[o] = NoOpening
    /\ s \in sessions /\ f \notin files[s]
    /\ opening' = [opening EXCEPT ![o] =
                     [session |-> s, file |-> f, text |-> disk[f],
                      unlocked |-> file_locks[f] = None]]
    /\ crossed' = IF Saving(f) THEN crossed \cup {f} ELSE crossed
    /\ UNCHANGED <<created, sessions, files, content, is_modified, disk,
                   file_locks, save, closing, todo, updates, late, overwritten>>

\* nothing is checked again after the read
OpenFinish(o) ==
    /\ opening[o] # NoOpening
    /\ LET s == opening[o].session
           f == opening[o].file
       IN  /\ save' = Detach(s, f)
           /\ files' = [files EXCEPT ![s] = @ \cup {f}]
           /\ content' = [content EXCEPT ![s][f] = opening[o].text]
           /\ is_modified' = [is_modified EXCEPT ![s][f] = FALSE]
           /\ file_locks' = IF opening[o].unlocked
                            THEN [file_locks EXCEPT ![f] = User[s]] ELSE file_locks
    /\ opening' = [opening EXCEPT ![o] = NoOpening]
    /\ UNCHANGED <<created, sessions, disk, closing, todo, updates, late,
                   overwritten, crossed>>

Unlocked(s, f) ==
    IF file_locks[f] = User[s] THEN [file_locks EXCEPT ![f] = None] ELSE file_locks

CloseFile(s, f) ==
    /\ "close" \in Uses
    /\ s \in sessions /\ f \in files[s]
    /\ file_locks' = Unlocked(s, f)
    /\ files' = [files EXCEPT ![s] = @ \ {f}]
    /\ content' = [content EXCEPT ![s][f] = Empty]
    /\ is_modified' = [is_modified EXCEPT ![s][f] = FALSE]
    /\ save' = Detach(s, f)
    /\ UNCHANGED <<created, sessions, disk, opening, closing, todo, updates,
                   late, overwritten, crossed>>

-----------------------------------------------------------------------------
(* save_file, in its stretches between awaits and what the threads do      *)
(* meanwhile; k says who called it                                         *)

Savable(s, f) == s \in sessions /\ f \in files[s] /\ content[s][f] \notin Invalid

Begun(f) == [at |-> "begun", file |-> f, text |-> Empty, own |-> TRUE]

BeginSave(s, k, f) ==
    /\ save' = [save EXCEPT ![s][k] = Begun(f)]
    /\ overwritten' = overwritten \ {f}
    /\ crossed' = IF Saving(f) \/ BeingRead(f) \/ OpenElsewhere(s, f)
                  THEN crossed \cup {f} ELSE crossed \ {f}

\* opening for writing empties the file
SaveOpen(s, k) ==
    /\ save[s][k].at = "begun"
    /\ disk' = [disk EXCEPT ![save[s][k].file] = Empty]
    /\ save' = [save EXCEPT ![s][k].at = "opened"]
    /\ UNCHANGED <<created, sessions, files, content, is_modified, file_locks,
                   opening, closing, todo, updates, late, overwritten, crossed>>

\* the content is taken when write is called
SaveWrite(s, k) ==
    /\ save[s][k].at = "opened"
    /\ save' = [save EXCEPT ![s][k].at = "writing",
                            ![s][k].text = IF save[s][k].own
                                           THEN content[s][save[s][k].file] ELSE @]
    /\ UNCHANGED <<created, sessions, files, content, is_modified, disk, file_locks,
                   opening, closing, todo, updates, late, overwritten, crossed>>

\* what a file that has old may have when text was written from its beginning
Written(old, text) ==
    IF text = Empty THEN {old} ELSE IF old \in {Empty, text} THEN {text} ELSE {text, Mixed}

\* closing the file brings the text to the disk
SaveFlush(s, k) ==
    /\ save[s][k].at = "writing"
    /\ \E t \in Written(disk[save[s][k].file], save[s][k].text) :
         disk' = [disk EXCEPT ![save[s][k].file] = t]
    /\ save' = [save EXCEPT ![s][k].at = "flushed", ![s][k].text = Empty]
    /\ UNCHANGED <<created, sessions, files, content, is_modified, file_locks,
                   opening, closing, todo, updates, late, overwritten, crossed>>

\* mark_saved, whatever has been typed meanwhile
MarkAnySaved(s, k) == [is_modified EXCEPT ![s][save[s][k].file] = FALSE]
MarkSaved(s, k) ==
    IF save[s][k].own THEN [is_modified EXCEPT ![s][save[s][k].file] = FALSE]
                      ELSE is_modified

SaveDone(s, k) ==
    /\ k # "close"
    /\ save[s][k].at = "flushed"
    /\ is_modified' = MarkSaved(s, k)
    /\ save' = [save EXCEPT ![s][k] = NoSave]
    /\ UNCHANGED <<created, sessions, files, content, disk, file_locks, opening,
                   closing, todo, updates, late, overwritten, crossed>>

SaveFile(s, f) ==
    /\ "save" \in Uses
    /\ save[s]["save"] = NoSave
    /\ Savable(s, f)
    /\ BeginSave(s, "save", f)
    /\ UNCHANGED <<created, sessions, files, content, is_modified, disk, file_locks,
                   opening, closing, todo, updates, late>>

-----------------------------------------------------------------------------
(* update_content, format_file and auto-save *)

\* A cancelled auto-save writes no text it has not handed to its thread, but
\* the thread may still open and so truncate the file, or write the text.
LeftBehind(s) ==
    LET w == save[s]["auto"]
    IN  IF w.at = "begun" THEN [late EXCEPT ![w.file][Empty] = @ + 1]
        ELSE IF w.at = "writing" /\ w.text # Empty
        THEN [late EXCEPT ![w.file][w.text] = @ + 1]
        ELSE late

\* the thread gets to it, or the call was taken from its queue unstarted
LateWrite(f, t) ==
    /\ late[f][t] > 0
    /\ late' = [late EXCEPT ![f][t] = @ - 1]
    /\ \/ UNCHANGED <<disk, overwritten>>
       \/ /\ \E d \in IF t = Empty THEN {Empty} ELSE Written(disk[f], t) :
               disk' = [disk EXCEPT ![f] = d]
          /\ overwritten' = overwritten \cup {f}
    /\ UNCHANGED <<created, sessions, files, content, is_modified, file_locks,
                   opening, save, closing, todo, updates, crossed>>

Asleep(f) == [at |-> "asleep", file |-> f, text |-> Empty, own |-> TRUE]

\* one auto-save task per session: the new one cancels the one before
ScheduleNever(s, f) == UNCHANGED <<save, late>>
ScheduleBehind(s, f) ==
    /\ save' = IF save[s]["auto"].at \in {"idle", "asleep"}
               THEN [save EXCEPT ![s]["auto"] = Asleep(f)] ELSE save
    /\ UNCHANGED late
ScheduleAutoSave(s, f) ==
    IF AutoSave
    THEN /\ late' = LeftBehind(s)
         /\ save' = [save EXCEPT ![s]["auto"] = Asleep(f)]
    ELSE UNCHANGED <<save, late>>

UpdateContent(s, f) ==
    /\ s \in sessions /\ f \in files[s]
    /\ updates < MaxUpdates
    /\ updates' = updates + 1
    /\ \E c \in Contents \cup {Empty} : content' = [content EXCEPT ![s][f] = c]
    /\ is_modified' = [is_modified EXCEPT ![s][f] = TRUE]
    /\ ScheduleAutoSave(s, f)
    /\ crossed' = crossed \cup {g \in Files :
                     \/ g = f /\ SavedBy(f, {"save", "close"})
                     \/ g # f /\ AutoSave /\ save[s]["auto"].file = g}
    /\ UNCHANGED <<created, sessions, files, disk, file_locks, opening, closing, todo,
                   overwritten>>

FormatFile(s, f) ==
    /\ "format" \in Uses
    /\ s \in sessions /\ f \in files[s]
    /\ content[s][f] \notin Invalid
    /\ content' = [content EXCEPT ![s][f] = Formatted[@]]
    /\ is_modified' = [is_modified EXCEPT ![s][f] = TRUE]
    /\ crossed' = crossed \cup {f}
    /\ UNCHANGED <<created, sessions, files, disk, file_locks, opening, save,
                   closing, todo, updates, late, overwritten>>

\* the sleep is over
AutoSaveFires(s) ==
    LET f == save[s]["auto"].file
    IN  /\ save[s]["auto"].at = "asleep"
        /\ IF Savable(s, f)
           THEN BeginSave(s, "auto", f)
           ELSE /\ save' = [save EXCEPT ![s]["auto"] = NoSave]
                /\ UNCHANGED <<overwritten, crossed>>
        /\ UNCHANGED <<created, sessions, files, content, is_modified, disk,
                       file_locks, opening, closing, todo, updates, late>>

-----------------------------------------------------------------------------
(* close_session: saves one modified file after the other, then cancels the *)
(* auto-save and forgets the session; its files stay locked.                *)

CloseEndsHolding(s) ==
    /\ late' = LeftBehind(s)
    /\ save' = [save EXCEPT ![s]["auto"] = NoSave, ![s]["close"] = NoSave]
    /\ sessions' = sessions \ {s}
    /\ closing' = s
    /\ todo' = {}
    /\ UNCHANGED <<overwritten, crossed>>
CloseEnds(s) ==
    /\ late' = LeftBehind(s)
    /\ save' = [save EXCEPT ![s]["auto"] = NoSave, ![s]["close"] = NoSave]
    /\ sessions' = sessions \ {s}
    /\ closing' = None
    /\ todo' = {}
    /\ UNCHANGED <<overwritten, crossed>>

\* the files of a snapshot are looked at in turn; those before the next one
\* to be saved are skipped
Unsaved(s, left) ==
    {f \in left : is_modified'[s][f] /\ Savable(s, f)}
CloseRescans(s, left) ==
    IF \E f \in files[s] : is_modified'[s][f]
    THEN /\ closing' = s
         /\ todo' = files[s]
         /\ \/ \E f \in Unsaved(s, files[s]) : BeginSave(s, "close", f)
            \/ /\ Unsaved(s, files[s]) = {}
               /\ save' = [save EXCEPT ![s]["close"] = NoSave]
               /\ UNCHANGED <<overwritten, crossed>>
         /\ UNCHANGED <<sessions, late>>
    ELSE CloseEnds(s)
CloseGoesOn(s, left) ==
    IF Unsaved(s, left) = {}
    THEN CloseEnds(s)
    ELSE \E f \in Unsaved(s, left) :
           /\ \E skipped \in SUBSET (left \ Unsaved(s, left)) :
                todo' = left \ (skipped \cup {f})
           /\ BeginSave(s, "close", f)
           /\ closing' = s
           /\ UNCHANGED <<sessions, late>>

CloseSession(s) ==
    /\ "close_session" \in Uses
    /\ closing = None
    /\ s \in sessions
    /\ UNCHANGED is_modified
    /\ CloseGoesOn(s, files[s])
    /\ UNCHANGED <<created, files, content, disk, file_locks, opening, updates>>

CloseSaved(s) ==
    /\ save[s]["close"].at = "flushed"
    /\ is_modified' = MarkSaved(s, "close")
    /\ CloseGoesOn(s, todo)
    /\ UNCHANGED <<created, files, content, disk, file_locks, opening, updates>>

-----------------------------------------------------------------------------
SaveStep(s, k) ==
    SaveOpen(s, k) \/ SaveWrite(s, k) \/ SaveFlush(s, k) \/ SaveDone(s, k)

EditorNext ==
    \/ \E o \in Openers : \/ OpenFinish(o)
                          \/ \E s \in Sessions, f \in Files : OpenRead(o, s, f)
    \/ \E f \in Files, t \in Text : LateWrite(f, t)
    \/ \E s \in Sessions :
         \/ CreateSession(s)
         \/ CloseSession(s) \/ CloseSaved(s)
         \/ AutoSaveFires(s)
         \/ \E k \in Slots : SaveStep(s, k)
         \/ \E f \in Files : \/ UpdateContent(s, f) \/ FormatFile(s, f)
                             \/ SaveFile(s, f) \/ CloseFile(s, f)

EditorSpec == EditorInit /\ [][EditorNext]_editor_vars

\* timers fire and threads answer; nothing is assumed of the late writes
EditorFairSpec ==
    /\ EditorSpec
    /\ \A s \in Sessions :
         /\ WF_editor_vars(AutoSaveFires(s)) /\ WF_editor_vars(CloseSaved(s))
         /\ \A k \in Slots : WF_editor_vars(SaveStep(s, k))

-----------------------------------------------------------------------------
(* Properties *)

IsOpen(s, f) == s \in sessions /\ f \in files[s]

\* A file shown as unmodified is on the disk as it is shown, unless it is being
\* saved, or, since its last save began, (overwritten) the thread of an auto-save
\* cancelled before or during that save has truncated it or written an old text
\* over it, or (crossed) something else came in between: another save, another
\* session with the file open (nothing tells it), an edit during an explicit
\* save, or opening the file.  A cancelled auto-save whose thread is through, or
\* is never started, does no harm.  (is_modified, mark_saved.)
CleanIsOnDisk ==
    \A s \in Sessions, f \in Files :
        IsOpen(s, f) /\ ~is_modified[s][f] /\ ~Saving(f) /\ f \notin crossed \cup overwritten
            => disk[f] = content[s][f]

\* Whatever the session saves, cancels or repeats behind the user's back, his
\* last text gets to the disk, also when the auto-save it cancelled had just
\* emptied the file, or its thread goes on to write.  Excused is a save that
\* completes with such a late write in it, what crossed a save, what format_file
\* made, and the file whose auto-save an edit of another file cancelled.
AutoSaveCatchesUp ==
    \A s \in Sessions, f \in Files :
        IsOpen(s, f) /\ is_modified[s][f] /\ f \notin crossed ~>
            \/ ~IsOpen(s, f)
            \/ disk[f] = content[s][f]
            \/ content[s][f] \in Invalid
            \/ f \in crossed
            \/ f \in overwritten /\ ~is_modified[s][f]

\* close_session ends, and frees the lock of the editor, however much is
\* typed or refused by the syntax check while it saves.
CloseSessionEnds == \A s \in Sessions : closing = s ~> closing = None

\* The unsaved mark of an open file falls only when a save of that very opening
\* completes: not when a file is closed and opened again while an old save of
\* it is still being written.  (An opening that arrives late replaces the file.)
UnsavedMarkIsKept ==
    [][\A s \in Sessions, f \in Files :
         IsOpen(s, f) /\ is_modified[s][f] /\ IsOpen(s, f)' /\ ~is_modified'[s][f]
           => \/ \E k \in Slots : /\ save[s][k].file = f /\ save[s][k].own
                                  /\ save[s][k].at = "flushed"
              \/ opening' # opening]_editor_vars
=============================================================================
