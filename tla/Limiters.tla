-------------------------------- MODULE Limiters --------------------------------
(***************************************************************************)
(* The limiters together: the server's interceptor chain holds one of      *)
(* them, `limiter`.  They share the requests, `place` (where a request is) *)
(* and the clock.                                                          *)
(***************************************************************************)
EXTENDS AllLimits

VARIABLES limiter, clock, place, current, retries,
          windowStart, from, number, opened, admitted,
          queue, newest, served, passed,
          val, expireAt, granted,
          sent, zset, lastAdd, stamps,
          fired, tick, producer, tokens, closed, taken,
          drips, drip, closing, let

Fix        == INSTANCE FixWindow WITH
                now <- clock, pc <- place, start <- from, cnt <- number
Slide      == INSTANCE SlideWindow WITH
                now <- clock, pc <- place, latest <- newest
RedisFix   == INSTANCE RedisFixWindow WITH now <- clock, pc <- place
RedisSlide == INSTANCE RedisSlideWindow WITH
                now <- clock, pc <- place, stamp <- sent, MaxRate <- StampRate
Token      == INSTANCE TokenBucket WITH granted <- taken
Leaky      == INSTANCE LeakyBucket WITH
                pc <- place, fired <- drips, tick <- drip, granted <- let

fixOnly        == <<from, windowStart, number, opened, admitted>>
slideOnly      == <<queue, newest, served, passed>>
redisFixOnly   == <<val, expireAt, granted>>
redisSlideOnly == <<sent, zset, lastAdd, stamps>>
tokenOnly      == <<fired, tick, producer, tokens, closed, taken>>
leakyOnly      == <<drips, drip, closing, let>>
bucketOnly     == <<tokenOnly, leakyOnly>>
windowVars == <<clock, current, retries, fixOnly, slideOnly, redisFixOnly,
                redisSlideOnly>>
limiterVars == <<limiter, place, windowVars, bucketOnly>>

LimiterInit ==
    /\ limiter \in {"fix", "slide", "redisFix", "redisSlide", "token", "leaky"}
    /\ Fix!Init /\ Slide!Init /\ RedisFix!Init /\ RedisSlide!Init
    /\ Token!Init /\ Leaky!Init

FixNext ==
    /\ limiter = "fix" /\ Fix!Next
    /\ UNCHANGED <<limiter, retries, slideOnly, redisFixOnly, redisSlideOnly,
                   bucketOnly>>

SlideNext ==
    /\ limiter = "slide" /\ Slide!Next
    /\ UNCHANGED <<limiter, retries, fixOnly, redisFixOnly, redisSlideOnly,
                   bucketOnly>>

RedisFixNext ==
    /\ limiter = "redisFix" /\ RedisFix!Next
    /\ UNCHANGED <<limiter, current, fixOnly, slideOnly, redisSlideOnly, bucketOnly>>

RedisSlideNext ==
    /\ limiter = "redisSlide" /\ RedisSlide!Next
    /\ UNCHANGED <<limiter, current, fixOnly, slideOnly, redisFixOnly, bucketOnly>>

TokenNext ==
    /\ limiter = "token" /\ Token!Next
    /\ UNCHANGED <<limiter, place, leakyOnly, windowVars>>

LeakyNext ==
    /\ limiter = "leaky" /\ Leaky!Next
    /\ UNCHANGED <<limiter, tokenOnly, windowVars>>

LimiterNext ==
    \/ FixNext \/ SlideNext \/ RedisFixNext \/ RedisSlideNext
    \/ TokenNext \/ LeakyNext

LimiterSpec == LimiterInit /\ [][LimiterNext]_limiterVars

\* The type invariants of the modules, each for its own limiter.
LimitersOK ==
    /\ limiter = "fix" => Fix!TypeOK
    /\ limiter = "slide" => Slide!TypeOK
    /\ limiter = "redisFix" => RedisFix!TypeOK
    /\ limiter = "redisSlide" => RedisSlide!TypeOK
    /\ limiter = "token" => Token!TypeOK
    /\ limiter = "leaky" => Leaky!TypeOK

\* FixWindow: a window lets at most maxRate requests through, however they
\* interleave (fix_window.go:50-57).
RatePerWindow == Fix!RatePerWindow

\* FixWindow: a window is replaced only by one that starts more than interval
\* later (fix_window.go:46-55).
WindowsSpaced == Fix!WindowsSpaced

\* SlideWindow: the window that ends with the newest time stamp seen holds at
\* most maxRate + 1 requests (slide_window.go:41-54).
NewestWindow == Slide!NewestWindow

\* SlideWindow: a request is rejected only when more than maxRate came through
\* since its window began (slide_window.go:41-51).
RejectedIsFull == Slide!RejectedIsFull

\* RedisFixWindow: no stretch of interval gives out more than twice maxRate
\* (fix_window.lua:3-21).
BurstAtBoundary == RedisFix!BurstAtBoundary

\* RedisFixWindow: a request is limited only after maxRate slots within the
\* last interval (fix_window.lua:9-20).
LimitedIsFull == [][limiter = "redisFix" => RedisFix!LimitsRightly]_limiterVars

\* RedisSlideWindow: at most maxRate time stamps, not requests, within the
\* last interval, less the clock skew (slide_window.lua:8-27).
StampsPerWindow == RedisSlide!StampsPerWindow

\* TokenBucket implements a bucket of buffer + 2 (token_bucket.go:26-43,
\* 105-120).
TokenIsBucket == Token!IsBucket

\* LeakyBucket implements a bucket of one (leaky_bucket.go:26-38).
LeakyIsBucket == Leaky!IsBucket
=============================================================================
