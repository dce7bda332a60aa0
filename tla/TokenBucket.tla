----------------------------- MODULE TokenBucket -----------------------------
(***************************************************************************)
(* TokenBucketLimiter (ratelimit/token_bucket.go): a goroutine moves ticks *)
(* of a ticker into a buffered channel of tokens; the interceptor takes    *)
(* one or rejects.  Nobody waits: the interceptor's select has a default.  *)
(***************************************************************************)
EXTENDS Integers

CONSTANTS
    Buffer,   \* buffer: how many tokens the channel holds
    Horizon   \* bound on the firings counted

VARIABLES
    fired,     \* firings of the ticker (history, since Observe)
    tick,      \* ticker.C holds a tick: its channel has room for one
    producer,  \* the goroutine of the constructor: "select", "send", "ended"
    tokens,    \* len(tokens)
    closed,    \* close(l.close) was called
    granted    \* requests handed to the handler (history, since Observe)

vars == <<fired, tick, producer, tokens, closed, granted>>

TypeOK ==
    /\ fired \in 0 .. Horizon
    /\ tick \in BOOLEAN
    /\ producer \in {"select", "send", "ended"}
    /\ tokens \in 0 .. Buffer
    /\ closed \in BOOLEAN
    /\ granted \in Nat

Init ==
    /\ fired = 0 /\ granted = 0
    /\ tick = FALSE
    /\ producer = "select"
    /\ tokens = 0
    /\ closed = FALSE

\* A ticker drops the tick for which its channel has no room; ticker.Stop runs
\* when the goroutine ends.
Fire ==
    /\ fired < Horizon
    /\ fired' = fired + 1
    /\ tick' = (tick \/ producer # "ended")
    /\ UNCHANGED <<producer, tokens, closed, granted>>

\* The outer select takes either case that is ready.
ReceiveTick ==
    /\ producer = "select" /\ tick
    /\ tick' = FALSE
    /\ producer' = "send"
    /\ UNCHANGED <<fired, tokens, closed, granted>>

ReceiveClose ==
    /\ producer = "select" /\ closed
    /\ producer' = "ended"
    /\ UNCHANGED <<fired, tick, tokens, closed, granted>>

\* Mutant of SendToken: without the default the channel grows.
SendToken_Unbuffered ==
    /\ producer = "send"
    /\ tokens' = tokens + 1
    /\ producer' = "select"
    /\ UNCHANGED <<fired, tick, closed, granted>>

\* The inner select: a full channel takes the default.
SendToken ==
    /\ producer = "send"
    /\ tokens' = IF tokens < Buffer THEN tokens + 1 ELSE tokens
    /\ producer' = "select"
    /\ UNCHANGED <<fired, tick, closed, granted>>

\* A request whose ctx is done or not: the handler runs only for a token.  The
\* other three cases, of which the default needs the others not to be ready,
\* return an error and change nothing.
Intercept(done) ==
    /\ \/ /\ tokens > 0
          /\ tokens' = tokens - 1
          /\ granted' = granted + 1
       \/ /\ done \/ closed \/ tokens = 0
          /\ UNCHANGED <<tokens, granted>>
    /\ UNCHANGED <<fired, tick, producer, closed>>

\* A second Close panics; "用户需要自己来保证" leaves that to the user.
Close ==
    /\ ~closed
    /\ closed' = TRUE
    /\ UNCHANGED <<fired, tick, producer, tokens, granted>>

\* An observer begins to count the firings and the requests let through.
Observe ==
    /\ fired' = 0 /\ granted' = 0
    /\ UNCHANGED <<tick, producer, tokens, closed>>

Next ==
    \/ Fire \/ ReceiveTick \/ ReceiveClose \/ SendToken \/ Close \/ Observe
    \/ \E done \in BOOLEAN : Intercept(done)

Spec == Init /\ [][Next]_vars

-----------------------------------------------------------------------------
\* What waits on the way from the ticker to a request.
Waiting == tokens + (IF tick THEN 1 ELSE 0)
                  + (IF producer = "send" THEN 1 ELSE 0)

AsBucket == INSTANCE Bucket WITH Capacity <- Buffer + 2, credit <- Waiting

(***************************************************************************)
(* The token bucket is a bucket of buffer + 2: besides the tokens, one     *)
(* tick waits in the ticker's channel and one in the producer's hand,      *)
(* also after Close.  About the producer and the interceptor               *)
(* (token_bucket.go:26-43, 105-120).                                       *)
(***************************************************************************)
IsBucket == AsBucket!Spec
=============================================================================
