----------------------------- MODULE CommandLine -----------------------------
(***************************************************************************)
(* The commands that prepare and maintain the server's data, as            *)
(* ttsmagic-server/src/main.rs runs them: a process is started with one    *)
(* subcommand.  What a command does is in a module of its own,             *)
(*   migrate                Migrations (several processes at once),        *)
(*   upload-files           Uploads (beside the saves of a server),        *)
(*   import-old, cleanup    OldDecks (beside the users of a server),       *)
(*   load-scryfall-bulk     BulkLoad,                                      *)
(* and what is asked of all of them is asked here.  A command is run by    *)
(* hand, so the four groups are taken one at a time.                       *)
(***************************************************************************)
EXTENDS Migrations

CONSTANTS
  Null,
  Files, Folders, FolderOf, Workers, Spare, Savers, NameOf, MaxRuns,    \* Uploads
  OldIds, NewIds, Urls, Canon, MaxImports, MaxCleanups, MaxAdds, MaxDeletes, \* OldDecks
  Cards, MaxVersion, MaxFaults                                          \* BulkLoad

VARIABLES
  running,      \* the command
  remote, local, unsent, scan, channel, worker, item, left, result, runs, saver, key,
  raced, refused,                                                       \* Uploads
  old, row, filled, ipc, toLoad, target, deck, cpc, toCheck, checked,
  imports, cleanups, adds, deletes, lost,                               \* OldDecks
  published, length, version, fresh, saved, phase, got, seen, faults    \* BulkLoad

Up == INSTANCE Uploads
Old == INSTANCE OldDecks
Bulk == INSTANCE BulkLoad WITH N <- Cards

ASSUME UploadsAssumption == /\ Up!FileAssumption /\ Up!WorkerAssumption /\ Up!SaverAssumption
                            /\ Up!ContentAssumption /\ Up!RunsAssumption
ASSUME OldDecksAssumption == Old!IdAssumption /\ Old!CanonAssumption /\ Old!BoundsAssumption
ASSUME BulkAssumption == Bulk!NAssumption /\ Bulk!VersionAssumption /\ Bulk!FaultsAssumption

uploadVars == <<remote, local, unsent, scan, channel, worker, item, left, result, runs,
                saver, key, raced, refused>>
deckVars == <<old, row, filled, ipc, toLoad, target, deck, cpc, toCheck, checked,
              imports, cleanups, adds, deletes, lost>>
cardVars == <<published, length, version, fresh, saved, phase, got, seen, faults>>
allVars == <<running, vars, uploadVars, deckVars, cardVars>>

Commands == {"migrate", "upload-files", "import-old", "load-scryfall-bulk"}

\* What a command that does not run would find is of no interest: one state stands
\* for all of them.
LineInit ==
  /\ running \in Commands
  /\ Init /\ (running # "migrate" => labels = {} /\ ~table)
  /\ Up!Init /\ (running # "upload-files" => \A f \in Files : remote[f] = Null)
  /\ Old!Init /\ (running # "import-old" => \A o \in OldIds : old[o] = CHOOSE u \in Urls : TRUE)
  /\ Bulk!Init

\* What the steps of one command leave alone.
ButMigrate == UNCHANGED <<running, uploadVars, deckVars, cardVars>>
ButUpload == UNCHANGED <<running, vars, deckVars, cardVars>>
ButImport == UNCHANGED <<running, vars, uploadVars, cardVars>>
ButBulk == UNCHANGED <<running, vars, uploadVars, deckVars>>

Migrate == running = "migrate" /\ Next /\ ButMigrate
UploadFiles == running = "upload-files" /\ Up!Next /\ ButUpload
ImportAndCleanup == running = "import-old" /\ Old!Next /\ ButImport
LoadScryfallBulk == running = "load-scryfall-bulk" /\ Bulk!Next /\ ButBulk

LineNext == Migrate \/ UploadFiles \/ ImportAndCleanup \/ LoadScryfallBulk

\* Each command with the fairness of its module; import-old and cleanup have none.
MigrateFairness == \A p \in Procs : WF_allVars(running = "migrate" /\ Step(p) /\ ButMigrate)
Uploading == running = "upload-files" /\ ButUpload
UploadFairness ==
  /\ \A f \in Folders : WF_allVars(Uploading /\ Up!ScannerStep(f))
  /\ \A w \in 1 .. Workers : WF_allVars(Uploading /\ Up!WorkerStep(w))
  /\ WF_allVars(Uploading /\ Up!PoolStep)
Loading == running = "load-scryfall-bulk" /\ ButBulk
BulkFairness == /\ WF_allVars(Loading /\ Bulk!Start(FALSE))
                /\ WF_allVars(Loading /\ Bulk!Step)
                /\ WF_allVars(Loading /\ Bulk!Age)

LineSpec == /\ LineInit /\ [][LineNext]_allVars
            /\ MigrateFairness /\ UploadFairness /\ BulkFairness
-----------------------------------------------------------------------------
\* A command that reports success has done the whole of its work, although each
\* of them goes on past files, decks or cards it has found done, may find what an
\* earlier run of it left when it was killed, and meets others at the same work
\* (apply_all, upload_all, import_all, load_bulk).  It says nothing of files whose
\* upload was refused, of decks the user lost, and of a run of the bulk load that took
\* up a torn file: the code reports success there, too.
SuccessMeansDone == /\ SuccessIsCurrent /\ LabelMeansApplied
                    /\ Up!SuccessIsComplete
                    /\ Old!ImportIsComplete
                    /\ Bulk!SuccessIsComplete

\* No command loses or overwrites what is there, wherever it is killed or one of
\* its steps fails: files stay on the disk until they are in the store, an object
\* in the store keeps its content, decks keep their cards and users their decks
\* (upload_files, upload_file_internal, load_tx, cleanup_deck).  It says nothing of
\* keys that two uploads found free at the same time (raced), of uploads that the
\* store refused (refused), and of decks whose user deleted the one that cleanup
\* took another for a duplicate of (lost): there the code does lose something.
NothingLost == /\ [](Up!NoFileLost /\ Up!SavedIsThere)
               /\ [][Up!NothingOverwritten /\ Old!CardsKept /\ Old!DecksKept]_allVars

\* A command does not fail because of how it works: of processes that migrate at once one
\* succeeds, import-old only panics when a user was quicker (a deck is in lost), and
\* load-scryfall-bulk only fails on a file whose download was cut off.
FailuresHaveReason == /\ SomeoneSucceeds
                      /\ Old!PanicsHaveReason
                      /\ Bulk!FailsOnTornFileOnly

\* No command waits for ever, neither for a lock that a killed process had nor for
\* the other end of a channel; and a file of cards that was cut off does not keep
\* the later runs from bringing all cards up to date.
CommandsEnd == /\ running = "migrate" => AllEnd
               /\ running = "upload-files" => Up!CommandEnds
               /\ running = "load-scryfall-bulk" => Bulk!AllCardsArrive
=============================================================================
