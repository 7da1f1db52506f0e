----------------------------- MODULE DiskTools -----------------------------
(***************************************************************************)
(* The programs that copy, move, remove and show files                     *)
(* (cov/utilitarios/copy.c, move.c, remove.c, cat.c) and the demonstration *)
(* of the disk (apps/app_fs_demo.c).                                       *)
(***************************************************************************)
EXTENDS Disk

CONSTANT Text  \* what the demonstration writes

VARIABLES
    src, dst, value, err,  \* the variables of move and copy; src is any fd
    out,                   \* what cat and the demonstration have printed
    says,                  \* the last message
    before                 \* the files when the program began

toolVars == <<src, dst, value, err, out, says, before>>

toolAll == <<app, pc, diskVars, nameVars, toolVars>>

ToolInit ==
    /\ src = -1 /\ dst = -1 /\ value = 0 /\ err = FS_OK
    /\ out = <<>>
    /\ says = ""
    /\ before = files

Say(message) == says' = message

-----------------------------------------------------------------------------
(* Reading the names. *)
MoveNames == ReadName(23, 2, "mount")
CopyNames == ReadName(23, 2, "mount")
RemoveName == ReadName(23, 1, "mount")
CatName == ReadName(23, 1, "mount")

(* fs_mount(); only the demonstration looks at its error. *)
MountThen(next) ==
    /\ At("mount")
    /\ FsMount /\ Goto(next)
    /\ UNCHANGED <<nameVars, toolVars>>

-----------------------------------------------------------------------------
(* What move.c and copy.c have in common. *)

OpenSource ==
    /\ At("open_src")
    /\ FsOpenRead(names[1])
    /\ IF fs_error' = FS_OK
       THEN src' = fs_result' /\ Goto("open_dst") /\ UNCHANGED says
       ELSE UNCHANGED src /\ Goto("exit") /\ Say("?")
    /\ UNCHANGED <<nameVars, dst, value, err, out, before>>

(* Mutant: the source is not closed when the destination does not open.    *)
OpenDestinationOnly ==
    /\ At("open_dst")
    /\ FsOpenWrite(names[2])
    /\ IF fs_error' = FS_OK
       THEN dst' = fs_result' /\ err' = FS_OK /\ Goto("read") /\ UNCHANGED says
       ELSE UNCHANGED <<dst, err>> /\ Goto("exit") /\ Say("?")
    /\ UNCHANGED <<nameVars, src, value, out, before>>

OpenDestination ==
    /\ At("open_dst")
    /\ FsOpenWrite(names[2])
    /\ IF fs_error' = FS_OK
       THEN dst' = fs_result' /\ err' = FS_OK /\ Goto("read") /\ UNCHANGED says
       ELSE UNCHANGED <<dst, err>> /\ Goto("give_up") /\ Say("?")
    /\ UNCHANGED <<nameVars, src, value, out, before>>

GiveUp ==
    /\ At("give_up")
    /\ FsClose(src) /\ Goto("exit")
    /\ UNCHANGED <<nameVars, toolVars>>

TransferRead ==
    /\ At("read")
    /\ FsReadByte(src)
    /\ value' = fs_result' /\ err' = fs_error'
    /\ Goto(IF err' = FS_OK THEN "write" ELSE "close_src")
    /\ UNCHANGED <<nameVars, src, dst, out, says, before>>

(* Mutant: the error of the write is not looked at. *)
TransferWriteBlind ==
    /\ At("write")
    /\ FsWriteByte(dst, value)
    /\ UNCHANGED err
    /\ Goto("read")
    /\ UNCHANGED <<nameVars, src, dst, value, out, says, before>>

TransferWrite ==
    /\ At("write")
    /\ FsWriteByte(dst, value)
    /\ err' = fs_error'
    /\ Goto(IF err' = FS_OK THEN "read" ELSE "close_src")
    /\ UNCHANGED <<nameVars, src, dst, value, out, says, before>>

(* What the two closes answer is not looked at. *)
CloseBoth ==
    /\ \/ At("close_src") /\ FsClose(src) /\ Goto("close_dst")
       \/ At("close_dst") /\ FsClose(dst) /\ Goto("finish")
    /\ UNCHANGED <<nameVars, toolVars>>

Transfer ==
    \/ MountThen("open_src")
    \/ OpenSource
    \/ OpenDestination
    \/ GiveUp
    \/ TransferRead
    \/ TransferWrite
    \/ CloseBoth

(* The source is deleted after its end was read, else the destination.     *)
Move ==
    \/ MoveNames /\ UNCHANGED toolVars
    \/ Transfer
    \/ /\ At("finish") /\ Goto("exit")
       /\ IF err = FS_ERR_EOF
          THEN FsDelete(names[1]) /\ Say(IF fs_error' = FS_OK THEN "OK" ELSE "?")
          ELSE FsDelete(names[2]) /\ Say("?")
       /\ UNCHANGED <<nameVars, src, dst, value, err, out, before>>

Copy ==
    \/ CopyNames /\ UNCHANGED toolVars
    \/ Transfer
    \/ /\ At("finish") /\ Goto("exit")
       /\ IF err = FS_ERR_EOF
          THEN UNCHANGED diskVars /\ Say("OK")
          ELSE FsDelete(names[2]) /\ Say("?")
       /\ UNCHANGED <<nameVars, src, dst, value, err, out, before>>

-----------------------------------------------------------------------------
RemoveFile ==
    \/ RemoveName /\ UNCHANGED toolVars
    \/ MountThen("delete")
    \/ /\ At("delete") /\ Goto("exit")
       /\ FsDelete(names[1]) /\ Say(IF fs_error' = FS_OK THEN "OK" ELSE "?")
       /\ UNCHANGED <<nameVars, src, dst, value, err, out, before>>

(* fs_print_rx(): one turn of its loop. *)
PrintRx(next) ==
    /\ At("print")
    /\ \/ /\ fs_rx # <<>>
          /\ out' = Append(out, Head(fs_rx)) /\ fs_rx' = Tail(fs_rx)
          /\ UNCHANGED pc
       \/ fs_rx = <<>> /\ Goto(next) /\ UNCHANGED <<out, fs_rx>>
    /\ UNCHANGED <<files, fds, fs_result, fs_error, refused, nameVars, src, dst, value, err,
                   says, before>>

Cat ==
    \/ CatName /\ UNCHANGED toolVars
    \/ MountThen("read_all")
    \/ /\ At("read_all")
       /\ FsReadAll(names[1])
       /\ IF fs_error' = FS_OK THEN Goto("print") /\ UNCHANGED says ELSE Goto("exit") /\ Say("?")
       /\ UNCHANGED <<nameVars, src, dst, value, err, out, before>>
    \/ PrintRx("exit")

-----------------------------------------------------------------------------
(* app_fs_demo.c.  Nothing tests whether a byte was written, and reading   *)
(* ends only at the end of the file: after another error the last result   *)
(* is printed again.  Its file is the first of Name.                       *)
DemoFile == CHOOSE name \in Name : TRUE

Demo ==
    \/ /\ At("mount")
       /\ FsMount
       /\ Goto(IF fs_error' = FS_OK THEN "mkdir" ELSE "exit")
       /\ UNCHANGED <<nameVars, toolVars>>
    \/ At("mkdir") /\ FsMkdir /\ Goto("open_write") /\ UNCHANGED <<nameVars, toolVars>>
    \/ \E open \in {<<"open_write", "write_text">>, <<"open_read", "first_byte">>} :
         /\ At(open[1])
         /\ IF open[1] = "open_write" THEN FsOpenWrite(DemoFile) ELSE FsOpenRead(DemoFile)
         /\ src' = fs_result'
         /\ value' = 1
         /\ Goto(IF fs_error' = FS_OK THEN open[2] ELSE "exit")
         /\ UNCHANGED <<nameVars, dst, err, out, says, before>>
    \/ /\ At("write_text")
       /\ IF value <= Len(Text)
          THEN FsWriteByte(src, Text[value]) /\ value' = value + 1 /\ UNCHANGED pc
          ELSE FsClose(src) /\ Goto("open_read") /\ UNCHANGED value
       /\ UNCHANGED <<nameVars, src, dst, err, out, says, before>>
    \/ At("first_byte") /\ FsReadByte(src) /\ Goto("show") /\ UNCHANGED <<nameVars, toolVars>>
    \/ /\ At("show")
       /\ IF fs_error # FS_ERR_EOF
          THEN FsReadByte(src) /\ out' = Append(out, fs_result) /\ UNCHANGED pc
          ELSE FsClose(src) /\ Goto("exit") /\ UNCHANGED out
       /\ UNCHANGED <<nameVars, src, dst, value, err, says, before>>

ToolNext ==
    /\ UNCHANGED app
    /\ \/ app = "move" /\ Move
       \/ app = "copy" /\ Copy
       \/ app = "remove" /\ RemoveFile
       \/ app = "cat" /\ Cat
       \/ app = "demo" /\ Demo

(* The disk holds any files of bytes when a program begins. *)
ToolSpec ==
    /\ app \in {"move", "copy", "remove", "cat", "demo"}
    /\ pc = IF app = "demo" THEN "mount" ELSE "name"
    /\ files \in FileSystem
    /\ DiskInit /\ NameInit /\ ToolInit
    /\ [][ToolNext]_toolAll

-----------------------------------------------------------------------------
Holds(name, content) == name \in DOMAIN files /\ files[name] = content

(* A file is never lost or cut by moving or copying it to another name,    *)
(* whichever command the disk refuses, except a close, whose error the     *)
(* programs do not look at: at every moment the source or the destination  *)
(* has the whole content, a copy leaves the source alone, and "OK" means   *)
(* that the destination has it.                                            *)
TransferSafe ==
    (/\ app \in {"move", "copy"} /\ Len(names) = 2 /\ names[1] # names[2]
     /\ names[1] \in DOMAIN before /\ "close" \notin refused)
    => LET content == before[names[1]]
       IN  /\ Holds(names[1], content) \/ (app = "move" /\ Holds(names[2], content))
           /\ says = "OK" => Holds(names[2], content)

(* The disk has few descriptors and nothing closes those of a program that *)
(* has ended: on every path, refusals included, each program has closed    *)
(* what it opened.                                                         *)
DescriptorsClosed == pc = "exit" => ClosedFds = Fd
=============================================================================
