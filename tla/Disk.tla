-------------------------------- MODULE Disk --------------------------------
(***************************************************************************)
(* The virtual disk as one program sees it (an external device, modelled   *)
(* from its use), the library that drives it (user/usr_fs.c), and how the  *)
(* programs of cov/utilitarios read the name of a file.                    *)
(*                                                                         *)
(* The registers of the disk belong to the program (module Devices), so a  *)
(* call of the library, which sends a name byte by byte, a command, and    *)
(* joins the two halves of the answer, is one step.  The disk may refuse   *)
(* each kind of command once.                                              *)
(***************************************************************************)
EXTENDS UserProgram, Integers, Sequences

CONSTANTS
    Name,   \* names of files
    Fd      \* the numbers of the disk's descriptors

ASSUME DiskAssumption == Fd \subseteq Nat

VARIABLES
    files,      \* the contents of the files that exist
    fds,        \* the descriptors
    fs_result, fs_error,  \* the program's registers
    fs_rx,      \* its FIFO of bytes received
    refused     \* commands the disk has refused

diskVars == <<files, fds, fs_result, fs_error, fs_rx, refused>>

FS_OK == 0
FS_ERR_EOF == 9
FS_ERR == 5  \* any other error

Closed == [mode |-> "closed", name |-> "", at |-> 0]

(* What a disk may hold: some of the names, with bytes. *)
FileSystem == UNION {[some -> Seq(Nat)] : some \in SUBSET Name}

DiskInit ==
    /\ fds = [fd \in Fd |-> Closed]
    /\ fs_result = 0 /\ fs_error = FS_OK
    /\ fs_rx = <<>>
    /\ refused = {}

ClosedFds == {fd \in Fd : fds[fd].mode = "closed"}

(* The program reads result and error after each command. *)
Answer(result, error) == fs_result' = result /\ fs_error' = error

Refuse(command) ==
    /\ command \notin refused
    /\ refused' = refused \cup {command}
    /\ Answer(-1, FS_ERR)

Accept(result) == UNCHANGED refused /\ Answer(result, FS_OK)

With(name, content) ==
    [f \in DOMAIN files \cup {name} |-> IF f = name THEN content ELSE files[f]]

-----------------------------------------------------------------------------
(* The library. *)

FsMount ==
    /\ Accept(0) \/ Refuse("mount")
    /\ UNCHANGED <<files, fds, fs_rx>>

FsMkdir ==
    /\ Accept(0) \/ Refuse("mkdir")
    /\ UNCHANGED <<files, fds, fs_rx>>

FsOpenRead(name) ==
    /\ \/ \E fd \in ClosedFds :
            /\ name \in DOMAIN files
            /\ fds' = [fds EXCEPT ![fd] = [mode |-> "read", name |-> name, at |-> 0]]
            /\ Accept(fd)
       \/ /\ name \notin DOMAIN files
          /\ Answer(-1, FS_ERR)
          /\ UNCHANGED <<fds, refused>>
       \/ Refuse("open_read") /\ UNCHANGED fds
    /\ UNCHANGED <<files, fs_rx>>

(* The file is created, or what it held is gone. *)
FsOpenWrite(name) ==
    /\ \/ \E fd \in ClosedFds :
            /\ fds' = [fds EXCEPT ![fd] = [mode |-> "write", name |-> name, at |-> 0]]
            /\ files' = With(name, <<>>)
            /\ Accept(fd)
       \/ Refuse("open_write") /\ UNCHANGED <<files, fds>>
    /\ UNCHANGED fs_rx

FsReadByte(fd) ==
    /\ LET content == files[fds[fd].name]
           at == fds[fd].at + 1
       IN  \/ /\ at <= Len(content)
              /\ fds' = [fds EXCEPT ![fd].at = at]
              /\ Accept(content[at])
           \/ /\ at > Len(content)
              /\ Answer(-1, FS_ERR_EOF)
              /\ UNCHANGED <<fds, refused>>
           \/ Refuse("read") /\ UNCHANGED fds
    /\ UNCHANGED <<files, fs_rx>>

FsWriteByte(fd, value) ==
    /\ \/ files' = [files EXCEPT ![fds[fd].name] = Append(@, value)] /\ Accept(1)
       \/ Refuse("write") /\ UNCHANGED files
    /\ UNCHANGED <<fds, fs_rx>>

(* A close that fails may have lost the end of what was written. *)
FsClose(fd) ==
    /\ fds' = [fds EXCEPT ![fd] = Closed]
    /\ \/ Accept(0) /\ UNCHANGED files
       \/ /\ Refuse("close")
          /\ IF fds[fd].mode = "write"
             THEN \E kept \in 0 .. Len(files[fds[fd].name]) :
                    files' = [files EXCEPT ![fds[fd].name] = SubSeq(@, 1, kept)]
             ELSE UNCHANGED files
    /\ UNCHANGED fs_rx

FsDelete(name) ==
    /\ \/ /\ name \in DOMAIN files
          /\ files' = [f \in DOMAIN files \ {name} |-> files[f]]
          /\ Accept(0)
       \/ /\ name \notin DOMAIN files
          /\ Answer(-1, FS_ERR)
          /\ UNCHANGED <<files, refused>>
       \/ Refuse("delete") /\ UNCHANGED files
    /\ UNCHANGED <<fds, fs_rx>>

FsReadAll(name) ==
    /\ \/ name \in DOMAIN files /\ fs_rx' = files[name] /\ Accept(Len(files[name]))
       \/ /\ name \notin DOMAIN files
          /\ Answer(-1, FS_ERR)
          /\ UNCHANGED <<fs_rx, refused>>
       \/ Refuse("read_all") /\ UNCHANGED fs_rx
    /\ UNCHANGED <<files, fds>>

-----------------------------------------------------------------------------
(* Reading a name from the keyboard. *)

VARIABLES
    n,      \* characters in the buffer
    names   \* the names read so far

nameVars == <<n, names>>

NameInit == n = 0 /\ names = <<>>

Typed(limit) == IF n < limit THEN n + 1 ELSE n

(* One key of mv_read_name and the others: a character, which is dropped   *)
(* when the buffer is full, a backspace, or the end of the line, after     *)
(* which the path is made.  An empty name ends the program.                *)
ReadName(limit, wanted, next) ==
    /\ At("name")
    /\ \/ n' = Typed(limit) /\ UNCHANGED <<names, pc>>
       \/ n' = (IF n > 0 THEN n - 1 ELSE n) /\ UNCHANGED <<names, pc>>
       \/ n = 0 /\ UNCHANGED nameVars /\ Goto("exit")
       \/ /\ n > 0 /\ n' = 0
          /\ \E name \in Name : names' = Append(names, name)
          /\ Goto(IF Len(names') = wanted THEN next ELSE "name")
    /\ UNCHANGED diskVars
=============================================================================
