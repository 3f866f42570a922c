SPECIFICATION Spec
CONSTANTS
    Workers = {w1, w2}
    Pushers = {"log", "scan"}
    NoThread = NoThread
    Ops = {1, 2, 3, 4, 5, 6, 7, 8}
    Kind <- MixedKind
    Programs <- MixedPrograms
    EntryId <- MixedId
    EntryName <- MixedName
    NoName = 0
    PushStage <- KindPushStage
    IdAtPush <- KindIdAtPush
    Exits <- KindExits
    stage_count <- PIPELINE_STAGE_COUNT
    Sequential <- StdSequential
    IdConstraint <- StdIdConstraint
    Batchable <- StdBatchable
    max_thread_count <- StdMaxThreads
    GetIdStage <- STAGE_GET_FID
    max_pending_operations = 2
    max_batch_size = 2
    Modes = {"FLUSH", "BREAK"}
INVARIANTS
    TypeOK OrderKept CountersExact SequentialInOrder IdOrder TokensExact
    FlushComplete ConstraintRegistered
CHECK_DEADLOCK FALSE
