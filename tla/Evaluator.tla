------------------------------ MODULE Evaluator ------------------------------
(* The evaluator of a node next to its governance.  The ledger announces   *)
(* every version of the governance on a broadcast channel; the compiler is *)
(* a task of its own that reads the announcements one by one and compiles  *)
(* the contracts of the version into the database.  The runner answers     *)
(* evaluation requests from what it finds there.  Between its reads of the *)
(* governance, the contract and the schema, the other two go on.           *)
EXTENDS Governance

CONSTANTS
  SchemaIds,    \* schemas that requests name
  BadSources,   \* contracts that do not compile
  BufferSize,   \* capacity of the broadcast channel
  MaxCrashes,   \* bound: crashes of the node
  None

ASSUME BufferAssumption == BufferSize \in Nat \ {0}

VARIABLES
  notices,      \* announced versions the compiler has not read
  lagged,       \* whether an announcement was overwritten before it was read
  running,      \* whether the compiler's task is still there
  compiling,    \* the update in progress: version and contracts to do, or None
  contracts,    \* database: schema -> source and version of the compiled contract
  evaluating,   \* the request in progress, with what was read for it, or None
  answer,       \* the evaluation just signed, or None
  missed,       \* history: the update to the last version was lost
  crashes

compilerVars == <<notices, lagged, running, compiling, contracts, missed>>
vars == <<govVars, compilerVars, evaluating, answer, crashes>>

-----------------------------------------------------------------------------
(* The governance.                                                         *)

\* A receiver that is BufferSize announcements behind loses the oldest one.
GovernanceUpdated ==
  /\ notices' = IF ~running THEN <<>>
                ELSE IF Len(notices) < BufferSize THEN Append(notices, gov'.sn)
                ELSE Append(Tail(notices), gov'.sn)
  /\ lagged' = (lagged \/ (running /\ Len(notices) = BufferSize))
  /\ missed' = ~running

StoreEvent ==
  /\ GovNext
  /\ GovernanceUpdated
  /\ UNCHANGED <<running, compiling, contracts, evaluating, answer, crashes>>

-----------------------------------------------------------------------------
(* The compiler.                                                           *)

\* update_contracts asks for the contracts of the announced version, which
\* need not be the last one any more.
StartUpdate ==
  /\ running
  /\ compiling = None
  /\ ~lagged
  /\ notices # <<>>
  /\ compiling' = [version |-> Head(notices), todo |-> GetContracts(Head(notices))]
  /\ notices' = Tail(notices)
  /\ UNCHANGED <<lagged, running, contracts, missed>>

\* recv() returns an error after an overflow, and the task returns.
CompilerEnds ==
  /\ running
  /\ compiling = None
  /\ lagged
  /\ running' = FALSE
  /\ notices' = <<>>
  /\ missed' = TRUE
  /\ UNCHANGED <<lagged, compiling, contracts>>

PutContract(c, version) ==
  contracts' = [s \in DOMAIN contracts \cup {c.schema} |->
                  IF s = c.schema THEN [raw |-> c.raw, version |-> version]
                  ELSE contracts[s]]

UpdateContractOnce ==  \* a mutant: a contract that is there is never updated
  /\ compiling # None
  /\ compiling.todo # <<>>
  /\ LET c == Head(compiling.todo)
     IN  \/ c.schema \in DOMAIN contracts /\ UNCHANGED contracts
         \/ /\ c.schema \notin DOMAIN contracts /\ c.raw \notin BadSources
            /\ PutContract(c, compiling.version)
  /\ compiling' = [compiling EXCEPT !.todo = Tail(@)]
  /\ UNCHANGED <<notices, lagged, running, missed>>

UpdateContractUnchecked ==  \* a mutant: whether the compilation failed is not seen
  /\ compiling # None
  /\ compiling.todo # <<>>
  /\ PutContract(Head(compiling.todo), compiling.version)
  /\ compiling' = [compiling EXCEPT !.todo = Tail(@)]
  /\ UNCHANGED <<notices, lagged, running, missed>>

\* A contract of this version is there, the old one has the same source, or
\* the new one compiles.
UpdateContract ==
  /\ compiling # None
  /\ compiling.todo # <<>>
  /\ LET c     == Head(compiling.todo)
         known == c.schema \in DOMAIN contracts
     IN  \/ /\ known /\ contracts[c.schema].version = compiling.version
            /\ UNCHANGED contracts
         \/ /\ known => contracts[c.schema].version # compiling.version
            /\ \/ known /\ contracts[c.schema].raw = c.raw
               \/ c.raw \notin BadSources
            /\ PutContract(c, compiling.version)
  /\ compiling' = [compiling EXCEPT !.todo = Tail(@)]
  /\ UNCHANGED <<notices, lagged, running, missed>>

\* An error ends the update, and the contracts that come later are not done.
CompilationFails ==
  /\ compiling # None
  /\ compiling.todo # <<>>
  /\ LET c     == Head(compiling.todo)
         known == c.schema \in DOMAIN contracts
     IN  /\ c.raw \in BadSources
         /\ known => /\ contracts[c.schema].version # compiling.version
                     /\ contracts[c.schema].raw # c.raw
  /\ compiling' = None
  /\ missed' = (missed \/ compiling.version = gov.sn)
  /\ UNCHANGED <<notices, lagged, running, contracts>>

EndUpdate ==
  /\ compiling # None
  /\ compiling.todo = <<>>
  /\ compiling' = None
  /\ UNCHANGED <<notices, lagged, running, contracts, missed>>

CompilerStep ==
  /\ StartUpdate \/ CompilerEnds \/ UpdateContract \/ CompilationFails \/ EndUpdate
  /\ UNCHANGED <<govVars, evaluating, answer, crashes>>

-----------------------------------------------------------------------------
(* The runner.  Requests for another version than the governance has are   *)
(* answered with a message that asks the other side or ourselves to catch  *)
(* up, and leave nothing behind.                                           *)

StartEvaluation(schema, version) ==
  /\ evaluating = None
  /\ gov.sn = version
  /\ evaluating' = [schema |-> schema, version |-> version, source |-> None]
  /\ answer' = None

ContractPresent ==  \* a mutant: the version of the contract is not compared
  evaluating.schema \in DOMAIN contracts

ContractUsable ==
  /\ evaluating.schema \in DOMAIN contracts
  /\ contracts[evaluating.schema].version = evaluating.version

\* ContractNotFound and ContractNotUpdated end the evaluation unanswered.
ReadContract ==
  /\ evaluating # None
  /\ evaluating.source = None
  /\ \/ /\ evaluating.schema = "governance"
        /\ evaluating' = [evaluating EXCEPT !.source = "governance"]
     \/ /\ evaluating.schema # "governance"
        /\ evaluating' = IF ContractUsable
                         THEN [evaluating EXCEPT !.source = contracts[evaluating.schema].raw]
                         ELSE None
  /\ UNCHANGED answer

\* The new state of a contract that succeeds is validated against the schema
\* of the request's version; what the contract does is its own.
Answer(success) ==
  /\ evaluating # None
  /\ evaluating.source # None
  /\ answer' = [schema |-> evaluating.schema, version |-> evaluating.version,
                source |-> evaluating.source,
                against |-> IF success
                            THEN GetSchema(evaluating.schema, evaluating.version)
                            ELSE "none"]
  /\ evaluating' = None

RunnerStep ==
  /\ \/ \E s \in SchemaIds, v \in 0 .. MaxVersion : StartEvaluation(s, v)
     \/ ReadContract
     \/ \E success \in BOOLEAN : Answer(success)
  /\ UNCHANGED <<govVars, compilerVars, crashes>>

-----------------------------------------------------------------------------

\* The node restarts with what the database holds; init of the compiler
\* prepares its directory and compiles nothing.
Crash ==
  /\ crashes < MaxCrashes
  /\ crashes' = crashes + 1
  /\ notices' = <<>>
  /\ lagged' = FALSE
  /\ running' = TRUE
  /\ compiling' = None
  /\ evaluating' = None
  /\ missed' = \/ missed
               \/ notices # <<>>
               \/ compiling # None /\ compiling.version = gov.sn
  /\ UNCHANGED <<govVars, contracts, answer>>

Init ==
  /\ GovInit
  /\ notices = <<>>
  /\ lagged = FALSE
  /\ running = TRUE
  /\ compiling = None
  /\ contracts = [s \in {} |-> None]
  /\ evaluating = None
  /\ answer = None
  /\ missed = FALSE
  /\ crashes = 0

Next == StoreEvent \/ CompilerStep \/ RunnerStep \/ Crash

\* The compiler's task is scheduled; nothing makes events or requests come.
Spec == Init /\ [][Next]_vars /\ WF_vars(CompilerStep)

-----------------------------------------------------------------------------
(* Properties.                                                             *)

TypeOK ==
  /\ Len(chain) = gov.sn /\ Len(was) = gov.sn + 1
  /\ Len(notices) <= BufferSize
  /\ \A s \in DOMAIN contracts :
       contracts[s].version \in 0 .. gov.sn /\ contracts[s].raw \notin BadSources
  /\ answer # None => answer.schema \in SchemaIds /\ answer.version \in 0 .. gov.sn

SchemaAt(v, schema) ==
  LET ss == was[v + 1].properties.schemas
  IN  ss[CHOOSE i \in DOMAIN ss : ss[i].id = schema]

\* However the compiler and the ledger interleave with execute_contract, an
\* evaluation for a version is made with the contract that this version had and
\* validated against its schema, as long as no event was rejected.
EvaluatedByItsVersion ==
  (/\ answer # None
   /\ answer.schema # "governance"
   /\ \A i \in 1 .. answer.version : chain[i].approved) =>
    /\ answer.schema \in Field(was[answer.version + 1].properties.schemas, "id")
    /\ answer.source = SchemaAt(answer.version, answer.schema).contract
    /\ answer.against \in {"none", SchemaAt(answer.version, answer.schema).schema}

CaughtUp ==
  \A s \in Field(gov.properties.schemas, "id") :
    s \in DOMAIN contracts /\ contracts[s].version = gov.sn

\* When the governance stops changing, update_contracts brings every contract to
\* its last version, unless the update to that version was lost: in a crash, with
\* a compilation that failed, or because the compiler fell behind.
ContractsFollowGovernance == <>[](CaughtUp \/ missed)
=============================================================================
