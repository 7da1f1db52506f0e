------------------------------- MODULE Editor -------------------------------
(***************************************************************************)
(* The line editor (cov/utilitarios/editor.c): lines are kept in ed_line   *)
(* and written to the file when they end; ESC writes the last one and      *)
(* leaves.                                                                 *)
(***************************************************************************)
EXTENDS Disk, SequencesExt

CONSTANTS
    LINE_MAX,  \* characters of a line (64)
    Typing     \* Bound: keys struck in the text, besides ESC

ASSUME EditorAssumption == LINE_MAX \in Nat \ {0} /\ Typing \in Nat

VARIABLES
    ed_line, ed_i, ed_newline, ed_fd, ed_done,
    ed_says,  \* the last message
    text,     \* what the user has put in the file: the lines ended, and the last
    keys      \* keys struck

editorVars == <<ed_line, ed_i, ed_newline, ed_fd, ed_done, ed_says, text, keys>>

editorAll == <<app, pc, diskVars, nameVars, editorVars>>

CR == 13
LF == 10

EditorInit ==
    /\ ed_line = <<>> /\ ed_i = 0 /\ ed_newline = FALSE
    /\ ed_fd = -1 /\ ed_done = FALSE
    /\ ed_says = ""
    /\ text = <<>>
    /\ keys = 0

-----------------------------------------------------------------------------
EditorName == ReadName(18, 1, "mount") /\ UNCHANGED editorVars

(* fs_mount(), fs_mkdir(), fs_open_write(); only the last is tested. *)
EditorOpen ==
    /\ UNCHANGED <<nameVars, ed_line, ed_i, ed_newline, ed_done, text, keys>>
    /\ \/ At("mount") /\ FsMount /\ Goto("mkdir") /\ UNCHANGED <<ed_fd, ed_says>>
       \/ At("mkdir") /\ FsMkdir /\ Goto("open") /\ UNCHANGED <<ed_fd, ed_says>>
       \/ /\ At("open")
          /\ FsOpenWrite(names[1])
          /\ ed_fd' = fs_result'
          /\ IF fs_error' = FS_OK
             THEN Goto("edit") /\ UNCHANGED ed_says
             ELSE Goto("exit") /\ ed_says' = "ERRO"

(* A key.  CR and ESC begin ed_flush_line(); LF is ignored, and so is a    *)
(* character when the line is full.                                        *)
Edit ==
    /\ At("edit") /\ ~ed_done
    /\ keys' = keys + 1
    /\ UNCHANGED <<diskVars, nameVars, ed_fd, ed_says>>
    /\ \/ /\ keys < Typing /\ Len(ed_line) < LINE_MAX
          /\ ed_line' = Append(ed_line, 100 + keys)
          /\ text' = Append(text, 100 + keys)
          /\ UNCHANGED <<pc, ed_i, ed_newline, ed_done>>
       \/ /\ keys < Typing /\ ed_line # <<>>
          /\ ed_line' = Front(ed_line)
          /\ text' = Front(text)
          /\ UNCHANGED <<pc, ed_i, ed_newline, ed_done>>
       \/ /\ keys < Typing
          /\ ed_i' = 0 /\ ed_newline' = TRUE
          /\ text' = text \o <<CR, LF>>
          /\ Goto("flush")
          /\ UNCHANGED <<ed_line, ed_done>>
       \/ /\ ed_i' = 0 /\ ed_newline' = FALSE
          /\ ed_done' = TRUE
          /\ Goto("flush")
          /\ UNCHANGED <<ed_line, text>>

(* Mutant: the line is kept after it was written. *)
FlushKeepsLine ==
    /\ At("flush")
    /\ UNCHANGED <<nameVars, ed_newline, ed_fd, text, keys, ed_line>>
    /\ LET rest == ed_line \o (IF ed_newline THEN <<CR, LF>> ELSE <<>>)
       IN  IF ed_i < Len(rest)
           THEN /\ FsWriteByte(ed_fd, rest[ed_i + 1])
                /\ ed_i' = ed_i + 1
                /\ IF fs_error' = FS_OK
                   THEN UNCHANGED <<pc, ed_done, ed_says>>
                   ELSE Goto("edit") /\ ed_done' = TRUE /\ ed_says' = "ERRO"
           ELSE /\ Goto("edit")
                /\ UNCHANGED <<diskVars, ed_i, ed_done, ed_says>>

(* One byte of ed_flush_line(): the line, then CR and LF if it was ended.  *)
(* It stops at the first error, which ends the editing.                    *)
Flush ==
    /\ At("flush")
    /\ UNCHANGED <<nameVars, ed_newline, ed_fd, text, keys>>
    /\ LET rest == ed_line \o (IF ed_newline THEN <<CR, LF>> ELSE <<>>)
       IN  IF ed_i < Len(rest)
           THEN /\ FsWriteByte(ed_fd, rest[ed_i + 1])
                /\ ed_i' = ed_i + 1
                /\ UNCHANGED ed_line
                /\ IF fs_error' = FS_OK
                   THEN UNCHANGED <<pc, ed_done, ed_says>>
                   ELSE Goto("edit") /\ ed_done' = TRUE /\ ed_says' = "ERRO"
           ELSE /\ ed_line' = <<>>
                /\ Goto("edit")
                /\ UNCHANGED <<diskVars, ed_i, ed_done, ed_says>>

EditorClose ==
    /\ At("edit") /\ ed_done
    /\ FsClose(ed_fd) /\ Goto("exit")
    /\ ed_says' = IF fs_error' = FS_OK THEN "SALVO" ELSE "ERRO"
    /\ UNCHANGED <<nameVars, ed_line, ed_i, ed_newline, ed_fd, ed_done, text, keys>>

EditorNext ==
    /\ UNCHANGED app /\ app = "editor"
    /\ EditorName \/ EditorOpen \/ Edit \/ Flush \/ EditorClose

EditorSpec ==
    /\ app = "editor" /\ pc = "name"
    /\ files \in FileSystem
    /\ DiskInit /\ NameInit /\ EditorInit
    /\ [][EditorNext]_editorAll

-----------------------------------------------------------------------------
(* When the disk refuses nothing, the file has what the user typed, with   *)
(* what was erased left out, each line once and in order, whatever was     *)
(* typed when a line was full.                                             *)
EditorSaves ==
    app = "editor" /\ ed_says = "SALVO" /\ refused = {} => files[names[1]] = text

(* "SALVO" (editor.c:209) is said of a file that has what was typed.       *)
EditorSaysSaved == app = "editor" /\ ed_says = "SALVO" => files[names[1]] = text
=============================================================================
