------------------------------- MODULE Uploads -------------------------------
(***************************************************************************)
(* How files get into the remote store (ttsmagic-server/src/files.rs,      *)
(* utils.rs, ttsmagic-s3/src/lib.rs).                                      *)
(*   upload_all    the command upload-files: a scanner per folder sends    *)
(*                 the files it finds through a channel of capacity one to *)
(*                 a pool of workers, each of which asks whether the key   *)
(*                 exists, uploads the file if not, and then deletes it    *)
(*                 locally (the option --delete);                          *)
(*   upload        a file the server saves meanwhile: it looks for a free  *)
(*                 key, starting with the name it would like, and uploads. *)
(* The command may be killed at any time and be started again.  The store  *)
(* knows no conditional upload: asking and uploading are two requests.     *)
(* A folder stands for everything below it; the order of a directory       *)
(* listing is open.                                                        *)
(***************************************************************************)
EXTENDS Naturals, FiniteSets

CONSTANTS
  Files,          \* the keys of the files on the local disk
  Folders, FolderOf,
  Workers,        \* 10 in the code
  Spare,          \* keys with random characters
  Savers,         \* files the server saves during the upload
  NameOf,         \* the key a saver would like to have
  Null,           \* no content
  MaxRuns         \* bound: how often the command is started

Keys == Files \cup Spare
\* A file's content is named by its key, a saver's by the saver.
Contents == Files \cup Savers

FileAssumption == FolderOf \in [Files -> Folders]
WorkerAssumption == Workers \in Nat \ {0}
SaverAssumption == NameOf \in [Savers -> Keys]
ContentAssumption == Files \cap Savers = {} /\ Null \notin Contents \cup Keys
RunsAssumption == MaxRuns \in Nat \ {0}

VARIABLES
  remote,         \* the object of each key
  local,          \* the local files
  unsent,         \* what scan_folder has still to find
  scan,           \* where each scanner stands
  channel,        \* the files in the channel
  worker, item,   \* where each worker stands, and its file
  left,           \* tasks of the AsyncPool not popped yet
  result,         \* of upload_all
  runs,           \* how often the command was started
  saver, key,     \* where each saver stands, and the key it has come to
  raced,          \* history: keys two of them were about to write at once
  refused         \* history: keys whose upload the store answered with an error status

command == <<unsent, scan, channel, worker, item, left, result, runs>>
saving == <<saver, key>>
history == <<raced, refused>>
vars == <<remote, local, command, saving, history>>

TypeOK ==
  /\ remote \in [Keys -> Contents \cup {Null}]
  /\ local \in SUBSET Files
  /\ unsent \in SUBSET Files
  /\ scan \in [Folders -> {"scanning", "done", "failed"}]
  /\ channel \in SUBSET Files /\ Cardinality(channel) <= 1
  /\ worker \in [1 .. Workers -> {"recv", "check", "put", "remove", "done", "failed"}]
  /\ item \in [1 .. Workers -> Files \cup {Null}]
  /\ left \in 0 .. Workers
  /\ result \in {"running", "ok", "failed", "killed"}
  /\ runs \in 1 .. MaxRuns
  /\ saver \in [Savers -> {"check", "put", "saved", "failed"}]
  /\ key \in [Savers -> Keys]
  /\ raced \in SUBSET Keys /\ refused \in SUBSET Keys

\* A key that is taken before the first run has the file's own content: it was
\* uploaded by an earlier run that kept the local files.
Init ==
  /\ remote \in [Keys -> Contents \cup {Null}]
  /\ \A k \in Keys : remote[k] \in {Null} \cup (Files \cap {k})
  /\ local = Files
  /\ unsent = Files
  /\ scan = [f \in Folders |-> "scanning"]
  /\ channel = {}
  /\ worker = [w \in 1 .. Workers |-> "recv"]
  /\ item = [w \in 1 .. Workers |-> Null]
  /\ left = Workers
  /\ result = "running"
  /\ runs = 1
  /\ saver = [s \in Savers |-> "check"]
  /\ key = NameOf
  /\ raced = {} /\ refused = {}

Running == result = "running"
Receiving(w) == worker[w] \notin {"done", "failed"}

\* Whoever has found k free and will write it.
AboutToWrite(k) == {w \in 1 .. Workers : worker[w] = "put" /\ item[w] = k}
                     \cup {s \in Savers : saver[s] = "put" /\ key[s] = k}
\* One more found k free (history variable only).
NoteFree(k) == /\ raced' = IF AboutToWrite(k) # {} THEN raced \cup {k} ELSE raced
               /\ UNCHANGED refused
-----------------------------------------------------------------------------
(* scan_folder *)

\* The channel has room: send the next file of the folder.
Send(f) ==
  /\ Running /\ scan[f] = "scanning"
  /\ channel = {}
  /\ \E w \in 1 .. Workers : Receiving(w)
  /\ \E k \in unsent : /\ FolderOf[k] = f
                       /\ channel' = {k}
                       /\ unsent' = unsent \ {k}
  /\ UNCHANGED <<remote, local, scan, worker, item, left, result, runs, saving, history>>

ScanDone(f) ==
  /\ Running /\ scan[f] = "scanning"
  /\ \A k \in unsent : FolderOf[k] # f
  /\ scan' = [scan EXCEPT ![f] = "done"]
  /\ UNCHANGED <<remote, local, unsent, channel, worker, item, left, result, runs,
                 saving, history>>

\* A directory cannot be read, or all receivers are gone: try_join gives up the
\* other folders too.
ScanFails(f) ==
  /\ Running /\ scan[f] = "scanning"
  /\ scan' = [g \in Folders |-> IF scan[g] = "scanning" THEN "failed" ELSE scan[g]]
  /\ UNCHANGED <<remote, local, unsent, channel, worker, item, left, result, runs,
                 saving, history>>

\* Every sender is dropped once its scanner has ended.
NoSender == \A f \in Folders : scan[f] # "scanning"
-----------------------------------------------------------------------------
(* upload_files, one worker *)

Worker(w, from, to) == /\ Running /\ worker[w] = from
                       /\ worker' = [worker EXCEPT ![w] = to]

Receive(w) ==
  /\ Worker(w, "recv", "check")
  /\ \E k \in channel : item' = [item EXCEPT ![w] = k]
  /\ channel' = {}
  /\ UNCHANGED <<remote, local, unsent, scan, left, result, runs, saving, history>>

\* Mutant: upload_all keeps a sender of its own, so recv never reports the end.
NothingMoreUnheard(w) == /\ FALSE
                         /\ UNCHANGED vars

NothingMore(w) ==
  /\ Worker(w, "recv", "done")
  /\ channel = {} /\ NoSender
  /\ UNCHANGED <<remote, local, unsent, scan, channel, item, left, result, runs, saving,
                 history>>

\* file_exists: a taken key only needs its local file deleted.
CheckKey(w) ==
  /\ \/ /\ Worker(w, "check", "put")
        /\ remote[item[w]] = Null
        /\ NoteFree(item[w])
     \/ /\ Worker(w, "check", "remove")
        /\ remote[item[w]] # Null
        /\ UNCHANGED history
  /\ UNCHANGED <<remote, local, unsent, scan, channel, item, left, result, runs, saving>>

\* Mutant: the local file is deleted before it is uploaded.
PutRemoved(w) == /\ Worker(w, "put", "remove")
                 /\ \/ remote' = [remote EXCEPT ![item[w]] = item[w]]
                    \/ UNCHANGED remote
                 /\ local' = local \ {item[w]}
                 /\ UNCHANGED <<unsent, scan, channel, item, left, result, runs, saving, history>>

\* put_object.  It does not look at the status of the answer: to the worker a
\* refused upload is an upload.
Put(w) ==
  /\ Worker(w, "put", "remove")
  /\ \/ remote' = [remote EXCEPT ![item[w]] = item[w]] /\ UNCHANGED refused
     \/ refused' = refused \cup {item[w]} /\ UNCHANGED remote
  /\ UNCHANGED <<local, unsent, scan, channel, item, left, result, runs, saving, raced>>

Remove(w) ==
  /\ Worker(w, "remove", "recv")
  /\ local' = local \ {item[w]}
  /\ item' = [item EXCEPT ![w] = Null]
  /\ UNCHANGED <<remote, unsent, scan, channel, left, result, runs, saving, history>>

\* A request or the deletion fails: the worker ends, and takes no file more.  The
\* store may have got the file although the answer did not come.
WorkerFails(w) ==
  /\ worker[w] \in {"check", "put", "remove"}
  /\ Worker(w, worker[w], "failed")
  /\ item' = [item EXCEPT ![w] = Null]
  /\ \/ UNCHANGED remote
     \/ worker[w] = "put" /\ remote' = [remote EXCEPT ![item[w]] = item[w]]
  /\ UNCHANGED <<local, unsent, scan, channel, left, result, runs, saving, history>>
-----------------------------------------------------------------------------
(* upload_all *)

\* Mutant: the pool takes every end of a task for a success.
PopTaskUnlooked ==
  /\ Running /\ left > 0
  /\ worker[left] \in {"done", "failed"}
  /\ left' = left - 1
  /\ UNCHANGED <<remote, local, unsent, scan, channel, worker, item, result, runs, saving,
                 history>>

\* AsyncPool::poll looks at the last task only, until it has ended.
PopTask ==
  /\ Running /\ left > 0
  /\ \/ /\ worker[left] = "done"
        /\ left' = left - 1
        /\ UNCHANGED result
     \/ /\ worker[left] = "failed"
        /\ result' = "failed"
        /\ UNCHANGED left
  /\ UNCHANGED <<remote, local, unsent, scan, channel, worker, item, runs, saving, history>>

\* The pool is done: wait for the scanners.
JoinScanners ==
  /\ Running /\ left = 0 /\ NoSender
  /\ result' = IF \E f \in Folders : scan[f] = "failed" THEN "failed" ELSE "ok"
  /\ UNCHANGED <<remote, local, unsent, scan, channel, worker, item, left, runs, saving,
                 history>>

\* The process ends between two steps of its workers.
Kill == /\ Running
        /\ result' = "killed"
        /\ UNCHANGED <<remote, local, unsent, scan, channel, worker, item, left, runs, saving,
                       history>>

\* The next run finds what is left on the disk.
Restart ==
  /\ ~Running /\ runs < MaxRuns
  /\ runs' = runs + 1
  /\ unsent' = local
  /\ scan' = [f \in Folders |-> "scanning"]
  /\ channel' = {}
  /\ worker' = [w \in 1 .. Workers |-> "recv"]
  /\ item' = [w \in 1 .. Workers |-> Null]
  /\ left' = Workers
  /\ result' = "running"
  /\ UNCHANGED <<remote, local, saving, history>>
-----------------------------------------------------------------------------
(* WritableMediaFile::upload_file_internal in the server *)

Saver(s, from, to) == /\ saver[s] = from
                      /\ saver' = [saver EXCEPT ![s] = to]

FindFree(s) ==
  /\ remote[key[s]] = Null
  /\ Saver(s, "check", "put")
  /\ NoteFree(key[s])
  /\ UNCHANGED <<remote, local, command, key>>

\* The key is taken: try another one, with random characters.
FindTaken(s) ==
  /\ saver[s] = "check"
  /\ remote[key[s]] # Null
  /\ \E k \in Spare : key' = [key EXCEPT ![s] = k]
  /\ UNCHANGED <<remote, local, command, saver, history>>

\* put_object, then the MediaFile with the key it was stored under.
SaverPut(s) ==
  /\ Saver(s, "put", "saved")
  /\ \/ remote' = [remote EXCEPT ![key[s]] = s] /\ UNCHANGED refused
     \/ refused' = refused \cup {key[s]} /\ UNCHANGED remote
  /\ UNCHANGED <<local, command, key, raced>>

SaverFails(s) ==
  /\ saver[s] \in {"check", "put"}
  /\ \/ UNCHANGED remote
     \/ saver[s] = "put" /\ remote' = [remote EXCEPT ![key[s]] = s]
  /\ saver' = [saver EXCEPT ![s] = "failed"]
  /\ UNCHANGED <<local, command, key, history>>
-----------------------------------------------------------------------------
ScannerStep(f) == Send(f) \/ ScanDone(f) \/ ScanFails(f)
WorkerStep(w) == \/ Receive(w) \/ NothingMore(w) \/ CheckKey(w)
                 \/ Put(w) \/ Remove(w) \/ WorkerFails(w)
PoolStep == PopTask \/ JoinScanners
SaverStep(s) == FindFree(s) \/ FindTaken(s) \/ SaverPut(s) \/ SaverFails(s)

Next == \/ \E f \in Folders : ScannerStep(f)
        \/ \E w \in 1 .. Workers : WorkerStep(w)
        \/ PoolStep \/ Kill \/ Restart
        \/ \E s \in Savers : SaverStep(s)

\* The executor runs the tasks of the command; a request is answered or fails.
Fairness == /\ \A f \in Folders : WF_vars(ScannerStep(f))
            /\ \A w \in 1 .. Workers : WF_vars(WorkerStep(w))
            /\ WF_vars(PoolStep)

Spec == Init /\ [][Next]_vars /\ Fairness
-----------------------------------------------------------------------------
\* No file is lost: a file that was on the disk before the first run is still
\* there, or its key leads to an object in the store, whenever the command is killed
\* and however often it is started.  The object is the file, or what a saver put at
\* the key before the command looked.  Only a file whose upload was refused is gone:
\* upload_files deletes it all the same.
NoFileLost == \A k \in Files : k \in local \/ remote[k] \in {k} \cup Savers \/ k \in refused

\* Nothing is overwritten, neither by a worker nor by a saver, at a key that not
\* two of them found free at the same time: pages that a stored TTS object
\* links to keep their images (the existence checks of files.rs).  Said of every step.
NothingOverwritten ==
  \A k \in Keys \ raced' : remote[k] # Null => remote'[k] = remote[k]

\* A page or image the server saved is under the key it was told, and stays there,
\* so that the link in the TTS object is good (finalize returns the key it wrote):
\* unless another upload found the key free at the same time, or the store refused.
SavedIsThere == \A s \in Savers :
  saver[s] = "saved" /\ key[s] \notin raced \cup refused => remote[key[s]] = s

\* upload_all reports success only when every file of every folder is in the store
\* and gone from the disk, although the pool looks at its tasks one after the
\* other and a failed one leaves its file behind (AsyncPool::poll, try_join).  Files
\* whose upload was refused are gone from the disk only.
SuccessIsComplete == result = "ok" => /\ local = {}
                                      /\ \A k \in Files \ refused : remote[k] # Null

\* The command always ends: no worker waits for a file when the scanners are gone,
\* and no scanner for room that no worker will make (the channel's two ends).
CommandEnds == Running ~> ~Running
=============================================================================
