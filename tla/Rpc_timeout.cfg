SPECIFICATION Spec
CONSTANTS
    RpcCalls = {c1, c2}
    Nobody = Nobody
    Metas = {{}, {"deadline"}, {"one-way", "deadline"}}
    MaxCap = 1
    MaxIdle = 1
    MaxConns = 2
INVARIANTS TimeoutIsError
CHECK_DEADLOCK FALSE
