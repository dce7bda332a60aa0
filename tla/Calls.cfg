SPECIFICATION AnySpec
CONSTANTS
    Instances = {i1, i2}
    Calls = {1, 2}
    RpcCalls = {c1, c2}
    Nobody = Nobody
    Metas = {{}, {"deadline"}, {"one-way", "deadline"}}
    MaxCap = 1
    MaxIdle = 1
    MaxConns = 2
INVARIANTS TypesOK AnswersBeforeClose PanicNeedsReuse FirstAnswer ReplySettled
    AnswersMatch RequestsIntact ServerSurvives
PROPERTIES OnlyErrorsLeak CallsEnd
CHECK_DEADLOCK FALSE
