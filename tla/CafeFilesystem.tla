---------------------------- MODULE CafeFilesystem ----------------------------
(***************************************************************************)
(* CafeFilesystem (cafe_filesystem.cpp): the FS and SAVE calls over the    *)
(* host's files. A title's clients open files of the read-only content     *)
(* directory and of a save slot through handles numbered by one counter.   *)
(* A path stands for what resolve_content and resolve_save make of a guest *)
(* string. The host is taken to have room for every write.                 *)
(***************************************************************************)
EXTENDS Integers, SequencesExt

CONSTANTS
  Clients, Commands,   (* addresses of FSClients and FSCmdBlocks              *)
  ContentFiles,        (* the files under content                             *)
  SaveFiles,           (* the names the guest uses in its save slot           *)
  StartContent,        (* what the files hold before the title starts         *)
  Bytes, Hole,         (* what the guest writes, and what a gap reads as      *)
  Absent,              (* what a file that is not there holds                 *)
  MaxLength,           (* bound on positions and on the length of a file      *)
  LastHandle,          (* the value next_handle_ wraps to 0 after             *)
  SaveRoot             (* is there a save directory on the host?              *)

Files == ContentFiles \cup SaveFiles
Contents == {c \in Seq(Bytes \cup {Hole}) : Len(c) <= MaxLength}

ASSUME FilesystemConstants ==
  /\ IsFiniteSet(Files) /\ ContentFiles \cap SaveFiles = {}
  /\ StartContent \in [Files -> Contents]
  /\ Hole \notin Bytes /\ Absent \notin Contents
  /\ MaxLength \in Nat /\ LastHandle \in Nat \ {0}
  /\ SaveRoot \in BOOLEAN

(* The modes parse_mode accepts, each also with a "b". *)
Mode(read, write, truncate, append) ==
  [read |-> read, write |-> write, truncate |-> truncate, append |-> append]
Modes == {
  Mode(TRUE,  FALSE, FALSE, FALSE),  \* r
  Mode(TRUE,  TRUE,  FALSE, FALSE),  \* r+
  Mode(FALSE, TRUE,  TRUE,  FALSE),  \* w
  Mode(TRUE,  TRUE,  TRUE,  FALSE),  \* w+
  Mode(FALSE, TRUE,  FALSE, TRUE),   \* a
  Mode(TRUE,  TRUE,  FALSE, TRUE)    \* a+
}
Creates(mode) == mode.truncate \/ mode.append

VARIABLES
  fsInitialized, saveInitialized,
  nextHandle,     (* next_handle_                                             *)
  clients, commands,
  lastErrors,     (* last_errors_, "ok" or "error" by client                  *)
  files,          (* files_, by handle                                        *)
  directories,    (* directories_, by handle                                  *)
  slot,           (* does the save slot's directory exist?                    *)
  host,           (* the host's files: what they hold, or Absent              *)
  stopped,        (* a guest fault has ended the run                          *)
  issued          (* every handle the guest was ever given                    *)

registry == <<fsInitialized, saveInitialized, clients, commands>>
tables == <<nextHandle, files, directories, issued>>
hostVars == <<slot, host>>
vars == <<registry, lastErrors, tables, hostVars, stopped>>

FileRecords ==
  [client : Clients, path : Files, position : 0..MaxLength,
   read : BOOLEAN, write : BOOLEAN, append : BOOLEAN]
DirectoryRecords == [client : Clients, entries : Nat, position : Nat]
Handles == 1..LastHandle

TypeOK ==
  /\ fsInitialized \in BOOLEAN /\ saveInitialized \in BOOLEAN
  /\ nextHandle \in 0..LastHandle
  /\ clients \subseteq Clients /\ commands \subseteq Commands
  /\ DOMAIN lastErrors \subseteq Clients
  /\ DOMAIN files \subseteq Handles /\ \A h \in DOMAIN files : files[h] \in FileRecords
  /\ DOMAIN directories \subseteq Handles
  /\ \A h \in DOMAIN directories : directories[h] \in DirectoryRecords
  /\ slot \in BOOLEAN
  /\ host \in [Files -> Contents \cup {Absent}]
  /\ stopped \in BOOLEAN
  /\ issued \subseteq Handles

Nothing == [x \in {} |-> 0]

(* The slot and files in it may be there from an earlier run of the title. *)
Init ==
  /\ fsInitialized = FALSE /\ saveInitialized = FALSE
  /\ nextHandle = 1
  /\ clients = {} /\ commands = {}
  /\ lastErrors = Nothing /\ files = Nothing /\ directories = Nothing
  /\ slot \in {FALSE, SaveRoot}
  /\ \E saved \in SUBSET SaveFiles :
       /\ saved # {} => slot
       /\ host = [p \in Files |-> IF p \in ContentFiles \cup saved THEN StartContent[p] ELSE Absent]
  /\ stopped = FALSE
  /\ issued = {}

-----------------------------------------------------------------------------
(* Starting and stopping, clients and command blocks. *)

FSInit ==
  /\ fsInitialized' = TRUE
  /\ UNCHANGED <<saveInitialized, clients, commands, lastErrors, tables, hostVars, stopped>>

FSShutdown ==
  /\ fsInitialized' = FALSE /\ saveInitialized' = FALSE
  /\ clients' = {} /\ commands' = {}
  /\ lastErrors' = Nothing /\ files' = Nothing /\ directories' = Nothing
  /\ UNCHANGED <<nextHandle, issued, hostVars, stopped>>

(* finish and success: only a registered client has a last error. *)
Report(c, detail) ==
  lastErrors' = IF c \in clients THEN [lastErrors EXCEPT ![c] = detail] ELSE lastErrors

FSAddClient(c) ==
  /\ fsInitialized
  /\ IF c \in clients
     THEN Report(c, "error") /\ UNCHANGED clients
     ELSE /\ clients' = clients \cup {c}
          /\ lastErrors' = [x \in DOMAIN lastErrors \cup {c} |->
                              IF x = c THEN "ok" ELSE lastErrors[x]]
  /\ UNCHANGED <<fsInitialized, saveInitialized, commands, tables, hostVars, stopped>>

Without(table, c) ==
  [h \in {g \in DOMAIN table : table[g].client # c} |-> table[h]]

(* mutant: open directories are forgotten about *)
CloseClientFiles(c) ==
  files' = Without(files, c) /\ UNCHANGED directories

CloseClientHandles(c) ==
  files' = Without(files, c) /\ directories' = Without(directories, c)

FSDelClient(c) ==
  /\ fsInitialized /\ c \in clients
  /\ CloseClientHandles(c)
  /\ clients' = clients \ {c}
  /\ lastErrors' = [x \in DOMAIN lastErrors \ {c} |-> lastErrors[x]]
  /\ UNCHANGED <<fsInitialized, saveInitialized, commands, nextHandle, issued, hostVars, stopped>>

FSInitCmdBlock(cmd) ==
  /\ fsInitialized
  /\ commands' = commands \cup {cmd}
  /\ UNCHANGED <<fsInitialized, saveInitialized, clients, lastErrors, tables, hostVars, stopped>>

SAVEInit ==
  /\ SaveRoot
  /\ saveInitialized' = TRUE
  /\ UNCHANGED <<fsInitialized, clients, commands, lastErrors, tables, hostVars, stopped>>

SAVEShutdown ==
  /\ saveInitialized' = FALSE
  /\ UNCHANGED <<fsInitialized, clients, commands, lastErrors, tables, hostVars, stopped>>

SAVEInitSaveDir ==
  /\ SaveRoot /\ saveInitialized
  /\ slot' = TRUE
  /\ UNCHANGED <<registry, lastErrors, tables, host, stopped>>

-----------------------------------------------------------------------------
(* What every command checks first. *)

(* command_failure lets the call through. *)
Accepted(c, cmd) == fsInitialized /\ c \in clients /\ cmd \in commands

(* A call fails: a registered client can read why. FSOpenFile and FSOpenDir  *)
(* look at the path before the client, hence the unregistered ones.          *)
Fail(c) ==
  /\ Report(c, "error")
  /\ UNCHANGED <<registry, tables, hostVars, stopped>>

(* An access to unmapped guest memory ends the run; elsewhere than before a  *)
(* change of the host's files that leaves nothing to observe.                *)
Fault == stopped' = TRUE /\ UNCHANGED <<registry, lastErrors, tables, hostVars>>

(* Queries: FSGetStat, FSGetStatFile, FSGetCwd,  *)
(* SAVEGetStat, SAVEFlushQuota.                                              *)
Query(c, cmd) ==
  /\ Accepted(c, cmd)
  /\ Report(c, "ok")
  /\ UNCHANGED <<registry, tables, hostVars, stopped>>

(* resolve_content and resolve_save: the namespace is there to look into.    *)
Resolves(p) == p \in ContentFiles \/ (p \in SaveFiles /\ saveInitialized /\ slot)

(* mutant: the counter starts over *)
HandleAfterWrapped(h) == IF h = LastHandle THEN 1 ELSE h + 1

(* allocate_handle leaves 0 in the counter after the last one. *)
HandleAfter(h) == IF h = LastHandle THEN 0 ELSE h + 1

(* The handle of the opened record goes to the guest. *)
Issue == issued' = issued \cup {nextHandle} /\ nextHandle' = HandleAfter(nextHandle)

With(table, h, record) ==
  [g \in DOMAIN table \cup {h} |-> IF g = h THEN record ELSE table[g]]

-----------------------------------------------------------------------------
(* open_file. *)

MayOpenAnything(p, mode) == TRUE  \* mutant: content is opened for writing too

(* Content is opened for reading only. *)
MayOpen(p, mode) == p \in SaveFiles \/ ~mode.write

Length(content) == IF content = Absent THEN 0 ELSE Len(content)

(* What fstream::open leaves of a file. *)
Opened(p, mode) ==
  [host EXCEPT ![p] = IF mode.truncate \/ @ = Absent THEN <<>> ELSE @]

NewFile(c, p, mode) ==
  [client |-> c, path |-> p,
   position |-> IF mode.append /\ ~mode.read THEN Length(host[p]) ELSE 0,
   read |-> mode.read, write |-> mode.write, append |-> mode.append]

(* The output address is written before the host file is touched, so that a  *)
(* fault comes first. A handle is taken last: where none is left the file    *)
(* has been created or truncated already.                                    *)
OpenFile(c, cmd, p, mode, mapped) ==
  /\ Accepted(c, cmd)
  /\ MayOpen(p, mode) /\ Resolves(p)
  /\ host[p] # Absent \/ Creates(mode)
  /\ IF ~mapped THEN Fault
     ELSE /\ host' = Opened(p, mode)
          /\ IF nextHandle = 0
             THEN Report(c, "error") /\ UNCHANGED tables
             ELSE /\ files' = With(files, nextHandle, NewFile(c, p, mode))
                  /\ Issue
                  /\ Report(c, "ok")
                  /\ UNCHANGED directories
          /\ UNCHANGED <<registry, slot, stopped>>

CloseFile(c, cmd, h) ==
  /\ Accepted(c, cmd)
  /\ h \in DOMAIN files /\ files[h].client = c
  /\ files' = [g \in DOMAIN files \ {h} |-> files[g]]
  /\ Report(c, "ok")
  /\ UNCHANGED <<registry, nextHandle, directories, issued, hostVars, stopped>>

(* FSReadFile of n bytes. At the end of the file the call succeeds with      *)
(* nothing, and the client's error is the end.                               *)
ReadFile(c, cmd, h, n) ==
  /\ Accepted(c, cmd)
  /\ h \in DOMAIN files /\ files[h].client = c /\ files[h].read
  /\ LET left == Length(host[files[h].path]) - files[h].position
         transferred == IF left < 0 THEN 0 ELSE IF left < n THEN left ELSE n
     IN  /\ files' = [files EXCEPT ![h].position = @ + transferred]
         /\ Report(c, IF transferred = 0 THEN "error" ELSE "ok")
  /\ UNCHANGED <<registry, nextHandle, directories, issued, hostVars, stopped>>

WriteStartAtPosition(f) == f.position  \* mutant: append is not looked at

WriteStart(f) == IF f.append THEN Length(host[f.path]) ELSE f.position

(* The file after data has gone to it at start; a gap is filled by the host. *)
Overwritten(content, start, data) ==
  LET end == start + Len(data)
  IN  [i \in 1..(IF end > Len(content) THEN end ELSE Len(content)) |->
         IF i \in (start + 1)..end THEN data[i - start]
         ELSE IF i <= Len(content) THEN content[i] ELSE Hole]

(* FSWriteFile. The whole buffer is read before the file is touched. *)
WriteFile(c, cmd, h, data, mapped) ==
  /\ Accepted(c, cmd)
  /\ h \in DOMAIN files /\ files[h].client = c /\ files[h].write
  /\ files[h].path \in SaveFiles
  /\ IF ~mapped THEN Fault
     ELSE LET p == files[h].path
              start == WriteStart(files[h])
          IN  /\ start + Len(data) <= MaxLength
              /\ host' = [host EXCEPT ![p] = Overwritten(@, start, data)]
              /\ files' = [files EXCEPT ![h].position = start + Len(data)]
              /\ Report(c, "ok")
              /\ UNCHANGED <<registry, nextHandle, directories, issued, slot, stopped>>

SetPosFile(c, cmd, h, position) ==
  /\ Accepted(c, cmd)
  /\ h \in DOMAIN files /\ files[h].client = c
  /\ files' = [files EXCEPT ![h].position = position]
  /\ Report(c, "ok")
  /\ UNCHANGED <<registry, nextHandle, directories, issued, hostVars, stopped>>

-----------------------------------------------------------------------------
(* Directories: what one holds is read when it is opened. *)

Entries(inSlot) ==
  Cardinality(IF inSlot THEN {p \in SaveFiles : host[p] # Absent} ELSE ContentFiles)

OpenDir(c, cmd, inSlot) ==
  /\ Accepted(c, cmd)
  /\ inSlot => saveInitialized /\ slot
  /\ IF nextHandle = 0
     THEN Report(c, "error") /\ UNCHANGED tables
     ELSE /\ directories' = With(directories, nextHandle,
                                 [client |-> c, entries |-> Entries(inSlot), position |-> 0])
          /\ Issue
          /\ Report(c, "ok")
          /\ UNCHANGED files
  /\ UNCHANGED <<registry, hostVars, stopped>>

ReadDir(c, cmd, h) ==
  /\ Accepted(c, cmd)
  /\ h \in DOMAIN directories /\ directories[h].client = c
  /\ IF directories[h].position = directories[h].entries
     THEN Report(c, "error") /\ UNCHANGED directories
     ELSE /\ directories' = [directories EXCEPT ![h].position = @ + 1]
          /\ Report(c, "ok")
  /\ UNCHANGED <<registry, nextHandle, files, issued, hostVars, stopped>>

CloseDir(c, cmd, h) ==
  /\ Accepted(c, cmd)
  /\ h \in DOMAIN directories /\ directories[h].client = c
  /\ directories' = [g \in DOMAIN directories \ {h} |-> directories[g]]
  /\ Report(c, "ok")
  /\ UNCHANGED <<registry, nextHandle, files, issued, hostVars, stopped>>

-----------------------------------------------------------------------------
RegistryNext ==
  \/ FSInit \/ FSShutdown \/ SAVEInit \/ SAVEShutdown \/ SAVEInitSaveDir
  \/ \E c \in Clients : FSAddClient(c) \/ FSDelClient(c) \/ Fail(c)
  \/ \E cmd \in Commands : FSInitCmdBlock(cmd)

CommandNext(c, cmd) ==
  \/ Query(c, cmd)
  \/ \E p \in Files, mode \in Modes, mapped \in BOOLEAN : OpenFile(c, cmd, p, mode, mapped)
  \/ \E inSlot \in BOOLEAN : OpenDir(c, cmd, inSlot)
  \/ \E h \in DOMAIN files :
       \/ CloseFile(c, cmd, h)
       \/ \E n \in 1..MaxLength : ReadFile(c, cmd, h, n)
       \/ \E byte \in Bytes, mapped \in BOOLEAN : WriteFile(c, cmd, h, <<byte>>, mapped)
       \/ \E position \in 0..MaxLength : SetPosFile(c, cmd, h, position)
  \/ \E h \in DOMAIN directories : ReadDir(c, cmd, h) \/ CloseDir(c, cmd, h)

Next ==
  /\ ~stopped
  /\ RegistryNext \/ \E c \in Clients, cmd \in Commands : CommandNext(c, cmd)

Spec == Init /\ [][Next]_vars

-----------------------------------------------------------------------------
OpenHandles == DOMAIN files \cup DOMAIN directories

(* A handle a client was ever given is not given again, whatever is closed,  *)
(* deleted or shut down in between: a stale one never reaches another file.  *)
(* cafe_filesystem_test.cpp:499: "closed handles are never reused".          *)
HandlesNeverReused ==
  [][(OpenHandles' \ OpenHandles) \cap issued = {}]_vars

(* Every open file and directory belongs to a client that is registered, so  *)
(* that someone can close it, a handle names one of the two, and exactly the *)
(* registered clients have a last error.                                     *)
HandlesOwned ==
  /\ \A h \in DOMAIN files : files[h].client \in clients
  /\ \A h \in DOMAIN directories : directories[h].client \in clients
  /\ DOMAIN files \cap DOMAIN directories = {}
  /\ DOMAIN lastErrors = clients

(* No sequence of calls changes a file of the title's content. *)
ContentUntouched == \A p \in ContentFiles : host[p] = StartContent[p]

(* What a save file holds is lost in two ways only: to an open that          *)
(* truncates it, and to a write of a handle that does not append. In         *)
(* particular the appending handles of two clients never overwrite each      *)
(* other, and a call that faults leaves every file alone.                    *)
NothingErased ==
  [][\A p \in Files : host[p] # Absent /\ host'[p] # host[p] =>
       /\ ~stopped'
       /\ \/ IsPrefix(host[p], host'[p])
          \/ host'[p] = <<>> /\ OpenHandles' # OpenHandles
          \/ host'[p] = <<>> /\ nextHandle = 0
          \/ \E h \in DOMAIN files : files[h].path = p /\ files[h].write /\ ~files[h].append]_vars
=============================================================================
