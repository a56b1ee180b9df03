------------------------------ MODULE DataJobs ------------------------------
(***************************************************************************)
(* Contact import and contact export: the two jobs that page through a     *)
(* workspace's contacts on the jobs queue.                                 *)
(*                                                                         *)
(*   apps/server/src/contacts/import-export-service.ts    the requests     *)
(*   apps/server/src/contacts/worker.ts                   the consumers    *)
(*   packages/database/src/contacts/data-job-repository.ts  their SQL      *)
(*   apps/server/src/runtime/dispatch.ts                  ack and retry    *)
(*                                                                         *)
(* One import and one export share the contacts table.  Neither worker     *)
(* takes a lock: "claiming" a job is a SELECT, and every later write is    *)
(* unconditional.  A message is delivered at least once, so two consumers  *)
(* may work on one job, and either may die between any two of its awaits.  *)
(*                                                                         *)
(* A contact is its position in the order of the ids (uuidv7 ids grow with *)
(* time), so the table is the number of its rows and the identifiers       *)
(* (e-mail addresses and external ids) they hold; nothing deletes a        *)
(* contact.  The remaining columns and the CSV's text are left out.        *)
(***************************************************************************)
EXTENDS Integers, Sequences, FiniteSets

CONSTANTS
  Identifiers,  \* e-mail addresses and external ids
  TotalParts,   \* number of parts the uploaded CSV is cut into
  PartRows,     \* per part, its rows in order: each the identifiers it names
  Known,        \* number of contacts that exist before the jobs
  KnownIds,     \* the identifiers they hold
  PageSize,     \* contacts per page of an export (batchSize)
  MaxContacts,  \* bound: contacts other requests create stop here
  Consumers,    \* concurrent queue consumers
  MaxFaults     \* bound: crashes, redeliveries and duplicates in a behaviour

PartNumbers == 0 .. TotalParts - 1

ASSUME DataJobsAssumption ==
  /\ TotalParts \in Nat /\ Known \in Nat /\ MaxContacts \in Nat /\ MaxFaults \in Nat
  /\ PageSize \in Nat \ {0}
  /\ KnownIds \subseteq Identifiers
  /\ DOMAIN PartRows = PartNumbers
  /\ \A p \in PartNumbers : PartRows[p] \in Seq(SUBSET Identifiers)

VARIABLES
  contacts,       \* how many contacts the table holds
  taken,          \* the identifiers they hold
  importRequest,  \* how far startContactImport has come ("none": nobody asks)
  importStored,   \* the parts of the import in the bucket
  importJob,      \* the import's row: status and processed
  importQueue,    \* messages waiting, per part
  importer,       \* per consumer, its step in processContactImport
  exportRequest,  \* how far startContactExport has come
  exportFrom,     \* history: contacts there were when the export was created
  exportJob,      \* the export's row: status, cursor and processed
  exportQueue,    \* messages waiting
  exportParts,    \* part number -> ids, the part objects in the bucket
  exportFile,     \* the finished object: its ids, or NoFile
  exporter,       \* per consumer, its step in processContactExport
  jobDead,        \* the kinds of job that lost a message to the dead letters
  jobFaults       \* faults so far

importVars == <<importRequest, importStored, importJob, importQueue, importer>>
exportVars == <<exportRequest, exportFrom, exportJob, exportQueue, exportParts,
                exportFile, exporter>>
jobVars == <<contacts, taken, importVars, exportVars, jobDead, jobFaults>>

Open == {"pending", "processing"}
JobStatus == {"none"} \cup Open \cup {"completed"}
NoFile == {-1}

ImportSteps == {"idle", "mark", "insert", "record", "send", "ack"}
ExportSteps == {"idle", "list", "put", "record", "send", "assemble", "putFile",
                "complete", "ack"}
IdleImporter == [step |-> "idle", part |-> 0]
IdleExporter == [step |-> "idle", part |-> 0, after |-> 0, page |-> 0,
                 read |-> 0, chunks |-> {}]

JobTypeOK ==
  /\ contacts \in Nat
  /\ taken \subseteq Identifiers
  /\ importRequest \in {"none", "storing", "created", "done", "died"}
  /\ importStored \subseteq PartNumbers
  /\ importJob \in [status : JobStatus, processed : Nat]
  /\ importQueue \in [PartNumbers -> Nat]
  /\ importer \in [Consumers -> [step : ImportSteps, part : Nat]]
  /\ exportRequest \in {"none", "start", "created", "done", "died"}
  /\ exportFrom \in Nat
  /\ exportJob \in [status : JobStatus, part : Nat, after : Nat, processed : Nat]
  /\ exportQueue \in Nat
  /\ DOMAIN exportParts \subseteq Nat
  /\ \A k \in DOMAIN exportParts : exportParts[k] \subseteq Nat
  /\ exportFile = NoFile \/ exportFile \subseteq Nat
  /\ exporter \in [Consumers -> [step : ExportSteps, part : Nat, after : Nat,
                                 page : Nat, read : Nat, chunks : SUBSET Nat]]
  /\ jobDead \subseteq {"import", "export"}
  /\ jobFaults \in 0 .. MaxFaults

JobInit ==
  /\ contacts = Known
  /\ taken = KnownIds
  /\ importRequest \in {"none", "storing"}
  /\ importStored = {}
  /\ importJob = [status |-> "none", processed |-> 0]
  /\ importQueue = [p \in PartNumbers |-> 0]
  /\ importer = [c \in Consumers |-> IdleImporter]
  /\ exportRequest \in {"none", "start"}
  /\ exportFrom = 0
  /\ exportJob = [status |-> "none", part |-> 0, after |-> 0, processed |-> 0]
  /\ exportQueue = 0
  /\ exportParts = [k \in {} |-> {}]
  /\ exportFile = NoFile
  /\ exporter = [c \in Consumers |-> IdleExporter]
  /\ jobDead = {}
  /\ jobFaults = 0

(* A fault is spent: the bound on crashes, redeliveries and duplicates.    *)
Fault == jobFaults < MaxFaults /\ jobFaults' = jobFaults + 1

-----------------------------------------------------------------------------
(* startContactImport: the parts are stored twenty at a time, in any order,*)
(* then the row is created, then the first message is sent.                *)

StorePart(p) ==
  /\ importRequest = "storing"
  /\ p \notin importStored
  /\ importStored' = importStored \cup {p}
  /\ UNCHANGED <<contacts, taken, importRequest, importJob, importQueue,
                 importer, exportVars, jobDead, jobFaults>>

CreateImport ==
  /\ importRequest = "storing"
  /\ importStored = PartNumbers
  /\ importRequest' = "created"
  /\ importJob' = [importJob EXCEPT !.status = "pending"]
  /\ UNCHANGED <<contacts, taken, importStored, importQueue, importer,
                 exportVars, jobDead, jobFaults>>

(* The first part is sent, or a file without rows is completed at once.    *)
SendFirstPart ==
  /\ importRequest = "created"
  /\ importRequest' = "done"
  /\ IF TotalParts > 0
       THEN /\ importQueue' = [importQueue EXCEPT ![0] = @ + 1]
            /\ importJob' = importJob
       ELSE /\ importJob' = [importJob EXCEPT !.status = "completed"]
            /\ importQueue' = importQueue
  /\ UNCHANGED <<contacts, taken, importStored, importer, exportVars, jobDead,
                 jobFaults>>

(* The request dies before it has finished: stray parts, or a row that     *)
(* stays pending because no message was sent for it.                       *)
ImportRequestDies ==
  /\ Fault
  /\ importRequest \in {"storing", "created"}
  /\ importRequest' = "died"
  /\ UNCHANGED <<contacts, taken, importStored, importJob, importQueue,
                 importer, exportVars, jobDead>>

-----------------------------------------------------------------------------
(* processContactImport, one action per await.                             *)

(* claimImportJob: a SELECT; a job that is not open is acknowledged.       *)
ClaimImportJob_PendingOnly(c, p) ==
  /\ importer[c].step = "idle"
  /\ importQueue[p] > 0
  /\ importQueue' = [importQueue EXCEPT ![p] = @ - 1]
  /\ importer' = [importer EXCEPT ![c] =
                    [step |-> IF importJob.status = "pending" THEN "mark" ELSE "ack",
                     part |-> p]]
  /\ UNCHANGED <<contacts, taken, importRequest, importStored, importJob,
                 exportVars, jobDead, jobFaults>>

ClaimImportJob(c, p) ==
  /\ importer[c].step = "idle"
  /\ importQueue[p] > 0
  /\ importQueue' = [importQueue EXCEPT ![p] = @ - 1]
  /\ importer' = [importer EXCEPT ![c] =
                    [step |-> IF importJob.status \in Open THEN "mark" ELSE "ack",
                     part |-> p]]
  /\ UNCHANGED <<contacts, taken, importRequest, importStored, importJob,
                 exportVars, jobDead, jobFaults>>

MarkProcessing(c) ==
  /\ importer[c].step = "mark"
  /\ importJob' = [importJob EXCEPT !.status = "processing"]
  /\ importer' = [importer EXCEPT ![c].step = "insert"]
  /\ UNCHANGED <<contacts, taken, importRequest, importStored, importQueue,
                 exportVars, jobDead, jobFaults>>

(* The rows of a part that a batch of INSERT .. ON CONFLICT DO NOTHING     *)
(* keeps: those with an identifier that neither a contact nor an earlier   *)
(* row of the batch that was kept holds.                                   *)
Kept(rows, K) ==
  \A i \in DOMAIN rows :
     i \in K <=> /\ rows[i] # {}
                 /\ rows[i] \cap taken = {}
                 /\ \A j \in K : j < i => rows[j] \cap rows[i] = {}

(* The part is read from the bucket and its rows inserted in one batch.    *)
InsertContacts(c) ==
  LET rows == PartRows[importer[c].part]
  IN /\ importer[c].step = "insert"
     /\ importer[c].part \in importStored
     /\ \E K \in SUBSET DOMAIN rows :
          /\ Kept(rows, K)
          /\ contacts' = contacts + Cardinality(K)
          /\ taken' = taken \cup UNION {rows[i] : i \in K}
     /\ importer' = [importer EXCEPT ![c].step = "record"]
     /\ UNCHANGED <<importRequest, importStored, importJob, importQueue,
                    exportVars, jobDead, jobFaults>>

(* A part that is not in the bucket is a permanent error: dead-lettered.   *)
PartMissing(c) ==
  /\ importer[c].step = "insert"
  /\ importer[c].part \notin importStored
  /\ importer' = [importer EXCEPT ![c] = IdleImporter]
  /\ jobDead' = jobDead \cup {"import"}
  /\ UNCHANGED <<contacts, taken, importRequest, importStored, importJob,
                 importQueue, exportVars, jobFaults>>

Finished(part) == part + 1 >= TotalParts

RecordImportProgress(c) ==
  LET part == importer[c].part
  IN /\ importer[c].step = "record"
     /\ importJob' = [status    |-> IF Finished(part) THEN "completed" ELSE "processing",
                      processed |-> importJob.processed + Len(PartRows[part])]
     /\ importer' = [importer EXCEPT ![c].step = IF Finished(part) THEN "ack" ELSE "send"]
     /\ UNCHANGED <<contacts, taken, importRequest, importStored, importQueue,
                    exportVars, jobDead, jobFaults>>

SendNextPart(c) ==
  /\ importer[c].step = "send"
  /\ importQueue' = [importQueue EXCEPT ![importer[c].part + 1] = @ + 1]
  /\ importer' = [importer EXCEPT ![c].step = "ack"]
  /\ UNCHANGED <<contacts, taken, importRequest, importStored, importJob,
                 exportVars, jobDead, jobFaults>>

AckImport(c) ==
  /\ importer[c].step = "ack"
  /\ importer' = [importer EXCEPT ![c] = IdleImporter]
  /\ UNCHANGED <<contacts, taken, importRequest, importStored, importJob,
                 importQueue, exportVars, jobDead, jobFaults>>

(* The consumer fails or dies before it acknowledges: the queue delivers   *)
(* the message again, or its attempts are used up and it is dead-lettered. *)
ImportFails(c) ==
  /\ Fault
  /\ importer[c].step # "idle"
  /\ importer' = [importer EXCEPT ![c] = IdleImporter]
  /\ \/ /\ importQueue' = [importQueue EXCEPT ![importer[c].part] = @ + 1]
        /\ jobDead' = jobDead
     \/ /\ jobDead' = jobDead \cup {"import"}
        /\ importQueue' = importQueue
  /\ UNCHANGED <<contacts, taken, importRequest, importStored, importJob, exportVars>>

(* The queue is at least once: a waiting message is delivered twice.       *)
ImportDuplicated(p) ==
  /\ Fault
  /\ importQueue[p] > 0
  /\ importQueue' = [importQueue EXCEPT ![p] = @ + 1]
  /\ UNCHANGED <<contacts, taken, importRequest, importStored, importJob,
                 importer, exportVars, jobDead>>

ImportStep(c) ==
  \/ \E p \in PartNumbers : ClaimImportJob(c, p)
  \/ MarkProcessing(c) \/ InsertContacts(c) \/ PartMissing(c)
  \/ RecordImportProgress(c) \/ SendNextPart(c) \/ AckImport(c)

ImportRequest == (\E p \in PartNumbers : StorePart(p)) \/ CreateImport \/ SendFirstPart

-----------------------------------------------------------------------------
(* startContactExport: the row is created, then its first message sent.    *)

CreateExport ==
  /\ exportRequest = "start"
  /\ exportRequest' = "created"
  /\ exportFrom' = contacts
  /\ exportJob' = [exportJob EXCEPT !.status = "pending"]
  /\ UNCHANGED <<contacts, taken, importVars, exportQueue, exportParts,
                 exportFile, exporter, jobDead, jobFaults>>

SendExport ==
  /\ exportRequest = "created"
  /\ exportRequest' = "done"
  /\ exportQueue' = exportQueue + 1
  /\ UNCHANGED <<contacts, taken, importVars, exportFrom, exportJob, exportParts,
                 exportFile, exporter, jobDead, jobFaults>>

ExportRequestDies ==
  /\ Fault
  /\ exportRequest = "created"
  /\ exportRequest' = "died"
  /\ UNCHANGED <<contacts, taken, importVars, exportFrom, exportJob, exportQueue,
                 exportParts, exportFile, exporter, jobDead>>

-----------------------------------------------------------------------------
(* processContactExport, one action per await.                             *)

(* claimExportJob: a SELECT that also reads the cursor.                    *)
ClaimExportJob(c) ==
  /\ exporter[c].step = "idle"
  /\ exportQueue > 0
  /\ exportQueue' = exportQueue - 1
  /\ exporter' = [exporter EXCEPT ![c] =
       [IdleExporter EXCEPT !.step = IF exportJob.status \in Open THEN "list" ELSE "ack",
                            !.part = exportJob.part, !.after = exportJob.after]]
  /\ UNCHANGED <<contacts, taken, importVars, exportRequest, exportFrom, exportJob,
                 exportParts, exportFile, jobDead, jobFaults>>

(* The contacts whose id follows the cursor, at most a page of them.       *)
PageAfter(after) ==
  IF contacts - after >= PageSize THEN PageSize
  ELSE IF contacts > after THEN contacts - after ELSE 0

ListContactsForExport(c) ==
  LET page == PageAfter(exporter[c].after)
  IN /\ exporter[c].step = "list"
     /\ exporter' = [exporter EXCEPT ![c].page = page,
                                     ![c].step = IF page > 0 THEN "put" ELSE "assemble"]
     /\ UNCHANGED <<contacts, taken, importVars, exportRequest, exportFrom, exportJob,
                    exportQueue, exportParts, exportFile, jobDead, jobFaults>>

PutExportPart(c) ==
  LET e == exporter[c]
  IN /\ e.step = "put"
     /\ exportParts' = [k \in DOMAIN exportParts \cup {e.part} |->
                          IF k = e.part THEN e.after + 1 .. e.after + e.page
                          ELSE exportParts[k]]
     /\ exporter' = [exporter EXCEPT ![c].step = "record"]
     /\ UNCHANGED <<contacts, taken, importVars, exportRequest, exportFrom, exportJob,
                    exportQueue, exportFile, jobDead, jobFaults>>

(* recordExportProgress moves the cursor, whatever it is by now; a page    *)
(* that was not full is the last one.                                      *)
RecordExportProgress(c) ==
  LET e == exporter[c]
  IN /\ e.step = "record"
     /\ exportJob' = [status    |-> "processing",
                      part      |-> e.part + 1,
                      after     |-> e.after + e.page,
                      processed |-> exportJob.processed + e.page]
     /\ exporter' = [exporter EXCEPT ![c].step =
                       IF e.page = PageSize THEN "send" ELSE "assemble"]
     /\ UNCHANGED <<contacts, taken, importVars, exportRequest, exportFrom, exportQueue,
                    exportParts, exportFile, jobDead, jobFaults>>

SendNextPage(c) ==
  /\ exporter[c].step = "send"
  /\ exportQueue' = exportQueue + 1
  /\ exporter' = [exporter EXCEPT ![c].step = "ack"]
  /\ UNCHANGED <<contacts, taken, importVars, exportRequest, exportFrom, exportJob,
                 exportParts, exportFile, jobDead, jobFaults>>

(* The number of parts the last page's consumer puts together: its own     *)
(* part counts only if it wrote one.                                       *)
PartsToRead_Short(e) == e.part
PartsToRead(e) == e.part + (IF e.page > 0 THEN 1 ELSE 0)

(* The parts are read one at a time, in order; others may write meanwhile. *)
ReadExportPart(c) ==
  LET e == exporter[c]
  IN /\ e.step = "assemble"
     /\ e.read < PartsToRead(e)
     /\ e.read \in DOMAIN exportParts
     /\ exporter' = [exporter EXCEPT ![c].read = @ + 1,
                                     ![c].chunks = @ \cup exportParts[e.read]]
     /\ UNCHANGED <<contacts, taken, importVars, exportRequest, exportFrom, exportJob,
                    exportQueue, exportParts, exportFile, jobDead, jobFaults>>

ExportPartMissing(c) ==
  LET e == exporter[c]
  IN /\ e.step = "assemble"
     /\ e.read < PartsToRead(e)
     /\ e.read \notin DOMAIN exportParts
     /\ exporter' = [exporter EXCEPT ![c] = IdleExporter]
     /\ jobDead' = jobDead \cup {"export"}
     /\ UNCHANGED <<contacts, taken, importVars, exportRequest, exportFrom, exportJob,
                    exportQueue, exportParts, exportFile, jobFaults>>

PutExportFile(c) ==
  LET e == exporter[c]
  IN /\ e.step = "assemble"
     /\ e.read = PartsToRead(e)
     /\ exportFile' = e.chunks
     /\ exporter' = [exporter EXCEPT ![c].step = "complete"]
     /\ UNCHANGED <<contacts, taken, importVars, exportRequest, exportFrom, exportJob,
                    exportQueue, exportParts, jobDead, jobFaults>>

MarkCompleted(c) ==
  /\ exporter[c].step = "complete"
  /\ exportJob' = [exportJob EXCEPT !.status = "completed"]
  /\ exporter' = [exporter EXCEPT ![c].step = "ack"]
  /\ UNCHANGED <<contacts, taken, importVars, exportRequest, exportFrom, exportQueue,
                 exportParts, exportFile, jobDead, jobFaults>>

AckExport_Unclaims(c) ==
  /\ exporter[c].step = "ack"
  /\ exportQueue' = exportQueue - 1
  /\ exporter' = [exporter EXCEPT ![c] = IdleExporter]
  /\ UNCHANGED <<contacts, taken, importVars, exportRequest, exportFrom, exportJob,
                 exportParts, exportFile, jobDead, jobFaults>>

AckExport(c) ==
  /\ exporter[c].step = "ack"
  /\ exporter' = [exporter EXCEPT ![c] = IdleExporter]
  /\ UNCHANGED <<contacts, taken, importVars, exportRequest, exportFrom, exportJob,
                 exportQueue, exportParts, exportFile, jobDead, jobFaults>>

ExportFails(c) ==
  /\ Fault
  /\ exporter[c].step # "idle"
  /\ exporter' = [exporter EXCEPT ![c] = IdleExporter]
  /\ \/ exportQueue' = exportQueue + 1 /\ jobDead' = jobDead
     \/ jobDead' = jobDead \cup {"export"} /\ exportQueue' = exportQueue
  /\ UNCHANGED <<contacts, taken, importVars, exportRequest, exportFrom, exportJob,
                 exportParts, exportFile>>

ExportDuplicated ==
  /\ Fault
  /\ exportQueue > 0
  /\ exportQueue' = exportQueue + 1
  /\ UNCHANGED <<contacts, taken, importVars, exportRequest, exportFrom, exportJob,
                 exportParts, exportFile, exporter, jobDead>>

ExportStep(c) ==
  \/ ClaimExportJob(c) \/ ListContactsForExport(c) \/ PutExportPart(c)
  \/ RecordExportProgress(c) \/ SendNextPage(c) \/ ReadExportPart(c)
  \/ ExportPartMissing(c) \/ PutExportFile(c) \/ MarkCompleted(c) \/ AckExport(c)

ExportRequest == CreateExport \/ SendExport

-----------------------------------------------------------------------------
(* Another request creates a contact while the jobs run.                   *)
CreateContact(ids) ==
  /\ contacts < MaxContacts
  /\ ids \cap taken = {}
  /\ contacts' = contacts + 1
  /\ taken' = taken \cup ids
  /\ UNCHANGED <<importVars, exportVars, jobDead, jobFaults>>

ImportNext ==
  \/ ImportRequest \/ ImportRequestDies
  \/ \E c \in Consumers : ImportStep(c) \/ ImportFails(c)
  \/ \E p \in PartNumbers : ImportDuplicated(p)

ExportNext ==
  \/ ExportRequest \/ ExportRequestDies
  \/ \E c \in Consumers : ExportStep(c) \/ ExportFails(c)
  \/ ExportDuplicated

JobNext ==
  \/ ImportNext
  \/ ExportNext
  \/ \E ids \in SUBSET Identifiers : CreateContact(ids)

JobSpec == JobInit /\ [][JobNext]_jobVars

(* A request that is not killed goes on, and the runtime keeps every       *)
(* consumer going and delivers what waits in the queue.                    *)
JobFairness ==
  /\ WF_jobVars(ImportRequest)
  /\ WF_jobVars(ExportRequest)
  /\ \A c \in Consumers : WF_jobVars(ImportStep(c)) /\ WF_jobVars(ExportStep(c))

-----------------------------------------------------------------------------
(* An import that shows "completed" has applied every part: each row that  *)
(* names an identifier has a contact that holds one of them.  It must hold *)
(* although a redelivered or duplicated message forks the chain of parts,  *)
(* and although a late consumer reopens and completes the job again.       *)
(* (contacts/worker.ts processContactImport)                               *)
ImportComplete ==
  importJob.status = "completed" =>
    \A p \in PartNumbers : \A i \in DOMAIN PartRows[p] :
      PartRows[p][i] # {} => PartRows[p][i] \cap taken # {}

(* An export that shows "completed" can be downloaded, and its file holds  *)
(* every contact there was when the export was requested: no page is lost  *)
(* when a stale consumer moves the cursor back, overwrites a part or puts  *)
(* the file together while another one writes.                             *)
(* (contacts/worker.ts processContactExport, import-export-service.ts      *)
(* getContactExportFile)                                                   *)
ExportComplete ==
  exportJob.status = "completed" =>
    exportFile # NoFile /\ 1 .. exportFrom \subseteq exportFile

(* Both jobs, whichever of their consumers run at once or die.             *)
JobsComplete == ImportComplete /\ ExportComplete

(* Every job that is created comes to rest: it is completed, unless its    *)
(* request died or one of its messages was dead-lettered.  A late consumer *)
(* that reopens a completed job therefore always completes it again.       *)
(* (contacts/worker.ts, both consumers)                                    *)
JobsSettle ==
  /\ <>[](\/ importJob.status \in {"none", "completed"}
          \/ importRequest = "died" \/ "import" \in jobDead)
  /\ <>[](\/ exportJob.status \in {"none", "completed"}
          \/ exportRequest = "died" \/ "export" \in jobDead)

=============================================================================
