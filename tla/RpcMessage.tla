------------------------------ MODULE RpcMessage ------------------------------
(***************************************************************************)
(* The codec of rpc/message.  A message is a sequence of cells: six for    *)
(* the fields of fixed width (15 bytes), one for every byte that matters   *)
(* of a name, a separator or the data.                                     *)
(***************************************************************************)
EXTENDS Integers, Sequences, FiniteSets, SequencesExt

Split == "LF"
PairSplit == "CR"
Fixed == 6

\* The cells of one pair of the metadata: a key is one cell, and so is each of
\* the two separators.
PairCells(req, key) == {key} \X (1 .. 1 + 1 + Len(req.meta[key]) + 1)

\* Mutant of ReqHeadLength: the separators of the metadata are forgotten.
ReqHeadLength_NoSeparators(req) ==
    Fixed + Len(req.service) + 1 + Len(req.method) + 1
          + Cardinality(UNION {{key} \X (1 .. 1 + Len(req.meta[key])) :
                                key \in DOMAIN req.meta})

ReqHeadLength(req) ==
    Fixed + Len(req.service) + 1 + Len(req.method) + 1
          + Cardinality(UNION {PairCells(req, key) : key \in DOMAIN req.meta})

ReqBodyLength(req) == Len(req.data)

\* A buffer of the given length: the fields of fixed width have their places,
\* the cells after them are copied one after the other.
Buffer(length, fixed, cells) ==
    [n \in 1 .. length |->
        IF n <= Fixed THEN fixed[n]
        ELSE IF n - Fixed <= Len(cells) THEN cells[n - Fixed] ELSE "NUL"]

\* The map of the metadata is walked in some order of its keys.
EncodeReq(req, order) ==
    Buffer(ReqHeadLength(req) + ReqBodyLength(req),
           <<ReqHeadLength(req), ReqBodyLength(req), req.id, req.version,
             req.compressor, req.serializer>>,
           req.service \o <<Split>> \o req.method \o <<Split>>
           \o FlattenSeq([n \in 1 .. Len(order) |->
                 <<order[n], PairSplit>> \o req.meta[order[n]] \o <<Split>>])
           \o req.data)

UpTo(cells, mark) == SubSeq(cells, 1, SelectInSeq(cells, LAMBDA x : x = mark) - 1)
After(cells, mark) ==
    SubSeq(cells, SelectInSeq(cells, LAMBDA x : x = mark) + 1, Len(cells))

\* What is left of the head after the two names, cut at the separators.
Pairs(bs) ==
    LET head == After(After(SubSeq(bs, Fixed + 1, bs[1]), Split), Split)
        ends == {n \in DOMAIN head : head[n] = Split}
        from(n) == 1 + Max({0} \cup {e \in ends : e < n})
        pairs == {SubSeq(head, from(n), n - 1) : n \in ends}
    IN  [key \in {Head(pair) : pair \in pairs} |->
           After(CHOOSE pair \in pairs : Head(pair) = key, PairSplit)]

\* The pairs go into a map of DecodeReq's own, which it throws away: Meta stays
\* nil.
DecodeReq(bs) ==
    LET head == SubSeq(bs, Fixed + 1, bs[1])
    IN  [id |-> bs[3], version |-> bs[4],
         compressor |-> bs[5], serializer |-> bs[6],
         service |-> UpTo(head, Split),
         method  |-> UpTo(After(head, Split), Split),
         meta    |-> <<>>,
         data    |-> IF bs[2] # 0 THEN SubSeq(bs, bs[1] + 1, Len(bs)) ELSE <<>>]

RespHeadLength(resp) == Fixed + Len(resp.error)
RespBodyLength(resp) == Len(resp.data)

EncodeResp(resp) ==
    Buffer(RespHeadLength(resp) + RespBodyLength(resp),
           <<RespHeadLength(resp), RespBodyLength(resp), resp.id, resp.version,
             resp.compressor, resp.serializer>>,
           resp.error \o resp.data)

DecodeResp(bs) ==
    [id |-> bs[3], version |-> bs[4], compressor |-> bs[5], serializer |-> bs[6],
     error |-> SubSeq(bs, Fixed + 1, bs[1]),
     data  |-> SubSeq(bs, bs[1] + 1, Len(bs))]
=============================================================================
