---------------------------- MODULE WaveObservations ----------------------------
(***************************************************************************)
(* ObservationSession: the streams and samples that one analysis keeps     *)
(* while it reads a waveform over and over.  A stream read for a window    *)
(* answers every later window inside it; entries are limited by records    *)
(* and by bytes at once.  The file may be replaced between the moments at  *)
(* which a call looks up its parser, takes the file's identity, lets the   *)
(* parser load the file, reads the records and checks the identity again.  *)
(*                                                                         *)
(* The file has generations; ObRows[g] are the records of generation g,    *)
(* [t |-> time, size |-> bytes, kind |-> "transition" or "boundary"].      *)
(* Records follow one another in time.  Calls follow one another under the *)
(* waveform lock.                                                          *)
(***************************************************************************)
EXTENDS OrderedDict

CONSTANTS ObRows, ObEnd,            \* the recordings, and where they end
          ObWindows, ObInstants,    \* windows of streams; windows and instants of samples
          ObNamespaces,             \* graph attempts a session can be bound to
          ObMaxEvents, ObMaxBytes,  \* limits of the session
          ObMaxCalls,               \* bound: calls of one behaviour
          ObNothing                 \* no call, no answer, no key

ObUnseen == -1

ObRecord == [t : Int, size : Nat, kind : {"transition", "boundary"}]

\* A window ends with the recording (-1) or no earlier than it starts.
IsWindow(from, to) == from \in Nat /\ to \in Int /\ (to = -1 \/ from <= to)

ASSUME ObsAssumption ==
    /\ 0 \in DOMAIN ObRows /\ DOMAIN ObRows \subseteq Nat
    /\ \A g \in DOMAIN ObRows :
          /\ ObRows[g] \in Seq(ObRecord)
          /\ \A i, j \in DOMAIN ObRows[g] : i <= j => ObRows[g][i].t <= ObRows[g][j].t
    /\ ObEnd \in Nat /\ ObMaxEvents \in Nat /\ ObMaxBytes \in Nat
    /\ \A w \in ObWindows : IsWindow(w.from, w.to)
    /\ \A w \in ObInstants : IsWindow(w.from, w.to) /\ w.at \in Int

VARIABLES
    obGen,       \* generation on disk
    obParser,    \* cached parser: signature, epoch, generation it has loaded
    obKnown,     \* identity the session last saw (ObUnseen: none)
    obNamespace, obEntries, obEvents, obBytes, obBudget,
    obCalls, obPc, obCall,
    obLast       \* what the last hit was answered with

obsVars == <<obGen, obParser, obKnown, obNamespace, obEntries, obEvents, obBytes, obBudget,
             obCalls, obPc, obCall, obLast>>

ObsInit(loads) ==
    /\ \E load \in loads : obNamespace = load
    /\ obGen = 0
    /\ obParser = [sig |-> ObUnseen, epoch |-> 0, loaded |-> ObUnseen]
    /\ obKnown = ObUnseen
    /\ obEntries = <<>>
    /\ obEvents = 0 /\ obBytes = 0 /\ obBudget = 0
    /\ obCalls = 0
    /\ obPc = "idle"
    /\ obCall = ObNothing
    /\ obLast = ObNothing

\* bisect_left: how many records come before an instant.
ObBelow(rows, t) ==
    CHOOSE n \in 0..Len(rows) : \A i \in 1..Len(rows) : i <= n <=> rows[i].t < t

\* The records of a window, and the last transition before it.
ObInside(rows, from, to) == SubSeq(rows, ObBelow(rows, from) + 1, ObBelow(rows, to + 1))
ObPrevious(rows, from, otherwise) ==
    LET before == {i \in 1..ObBelow(rows, from) : rows[i].kind = "transition"}
    IN  IF before = {} THEN otherwise ELSE <<rows[Max(before)]>>

\* What the parser reads: the records of the window and their predecessor.
ObUntil(to) == IF to < 0 THEN ObEnd ELSE to
ObRead(gen, from, to) ==
    [gen |-> gen, rows |-> ObInside(ObRows[gen], from, ObUntil(to)),
     predecessor |-> ObPrevious(ObRows[gen], from, <<>>)]

ObEventsOf(stream) == Len(stream.rows) + Len(stream.predecessor)
ObRowBytes(rows) == Cardinality(UNION {{i} \X (1..rows[i].size) : i \in 1..Len(rows)})
ObBytesOf(stream) == 1 + ObRowBytes(stream.rows) + ObRowBytes(stream.predecessor)

\* clear()
ObClear == obEntries' = <<>> /\ obEvents' = 0 /\ obBytes' = 0 /\ obBudget' = 0
ObKeep  == UNCHANGED <<obEntries, obEvents, obBytes, obBudget>>

\* bind(): another graph attempt starts from nothing.
Bind ==
    /\ obPc = "idle"
    /\ \E ns \in ObNamespaces \ {obNamespace} : obNamespace' = ns
    /\ ObClear
    /\ UNCHANGED <<obGen, obParser, obKnown, obCalls, obPc, obCall, obLast>>

\* _get_parser: the cached parser, or a new one when the file has changed.
GetParser ==
    obParser' = IF obParser.sig = obGen THEN obParser
                ELSE [sig |-> obGen, epoch |-> obParser.epoch + 1, loaded |-> ObUnseen]

NewCall(kind, from, to, at) ==
    [kind |-> kind, from |-> from, to |-> to, at |-> at, begun |-> obGen,
     key |-> ObNothing, sample |-> ObNothing, stream |-> ObNothing]

\* stream() of a window, or sample() of an instant of it.
BeginObservation(kind, from, to, at) ==
    /\ obPc = "idle"
    /\ obCalls < ObMaxCalls
    /\ obCalls' = obCalls + 1
    /\ GetParser
    /\ obPc' = "identity"
    /\ obCall' = NewCall(kind, from, to, at)
    /\ UNCHANGED <<obGen, obKnown, obNamespace, obEntries, obEvents, obBytes, obBudget, obLast>>

\* identity(): the file is looked at; a session that saw another one forgets all.
ForgetOld == IF obKnown \notin {ObUnseen, obGen} THEN ObClear ELSE ObKeep

\* What an entry is kept under.  (Mutant: without the parser's epoch.)
ObKeyOfFile == [ns |-> obNamespace, file |-> obGen]

ObKey == [ns |-> obNamespace, file |-> obGen, epoch |-> obParser.epoch]

TakeIdentity ==
    /\ obPc = "identity"
    /\ ForgetOld
    /\ obKnown' = obGen
    /\ obCall' = [obCall EXCEPT !.key = ObKey]
    /\ obPc' = "load"
    /\ UNCHANGED <<obGen, obParser, obNamespace, obCalls, obLast>>

\* selection_identity asks for the declaration, which loads the file once.
LoadFile ==
    /\ obPc = "load"
    /\ obParser' = [obParser EXCEPT !.loaded = IF @ = ObUnseen THEN obGen ELSE @]
    /\ obPc' = "lookup"
    /\ UNCHANGED <<obGen, obKnown, obNamespace, obEntries, obEvents, obBytes, obBudget,
                   obCalls, obCall, obLast>>

ObCovers(e) ==
    /\ e.kind = obCall.kind
    /\ e.key = obCall.key
    /\ IF e.kind = "stream" THEN e.from <= obCall.from /\ e.to >= obCall.to /\ obCall.to >= 0
                            ELSE <<e.from, e.to, e.at>> = <<obCall.from, obCall.to, obCall.at>>

ObHits == {i \in DOMAIN obEntries : ObCovers(obEntries[i])}

ObCut(stream) ==
    [gen |-> stream.gen, rows |-> ObInside(stream.rows, obCall.from, obCall.to),
     predecessor |-> ObPrevious(stream.rows, obCall.from, stream.predecessor)]

\* A call for a stream is over, unless a sample waits for that stream.
Answer(stream) ==
    IF obCall.sample = ObNothing THEN obPc' = "idle" /\ obCall' = ObNothing
    ELSE obPc' = "sampled" /\ obCall' = [obCall EXCEPT !.stream = stream]

\* A covering entry, the most recently used first, is cut to the window; a
\* sample is returned as it was kept.
ServeHit ==
    /\ obPc = "lookup"
    /\ ObHits # {}
    /\ LET i   == Max(ObHits)
           hit == IF obCall.kind = "sample" THEN obEntries[i].value
                  ELSE ObCut(obEntries[i].value)
       IN  /\ obEntries' = Touch(obEntries, obEntries[i])
           /\ obLast' = [kind |-> obCall.kind, from |-> obCall.from, to |-> obCall.to,
                         at |-> obCall.at, begun |-> obCall.begun, value |-> hit]
           /\ Answer(hit)
    /\ UNCHANGED <<obGen, obParser, obKnown, obNamespace, obEvents, obBytes, obBudget, obCalls>>

\* A sample that is not kept needs the stream of its window.
SampleMissed ==
    /\ obPc = "lookup"
    /\ ObHits = {}
    /\ obCall.kind = "sample"
    /\ GetParser
    /\ obCall' = [obCall EXCEPT !.kind = "stream", !.sample = obCall.key, !.begun = obGen]
    /\ obPc' = "identity"
    /\ UNCHANGED <<obGen, obKnown, obNamespace, obEntries, obEvents, obBytes, obBudget,
                   obCalls, obLast>>

\* The stream is read from what the parser has loaded; one that failed or was
\* truncated is answered with a gap and neither it nor its sample is kept.
ReadStream ==
    /\ obPc = "lookup"
    /\ ObHits = {}
    /\ obCall.kind = "stream"
    /\ \/ /\ obCall' = [obCall EXCEPT !.stream = ObRead(obParser.loaded, obCall.from, obCall.to)]
          /\ obPc' = "recheck"
       \/ obCall' = ObNothing /\ obPc' = "idle"
    /\ UNCHANGED <<obGen, obParser, obKnown, obNamespace, obEntries, obEvents, obBytes, obBudget,
                   obCalls, obLast>>

\* Records and bytes of some entries.
ObEvents(entries) == Cardinality(UNION {{e} \X (1..e.events) : e \in entries})
ObBytes(entries)  == Cardinality(UNION {{e} \X (1..e.bytes) : e \in entries})

ObSameKey(e, f) == <<e.kind, e.key, e.from, e.to, e.at>> = <<f.kind, f.key, f.from, f.to, f.at>>

\* Both limits allow the entry.
FitsNow(events, bytes, new) ==
    events + new.events <= ObMaxEvents /\ bytes + new.bytes <= ObMaxBytes

\* _put: pop what the key held, then the oldest until both limits allow the new.
ObPut(new) ==
    LET held   == {i \in DOMAIN obEntries : ObSameKey(obEntries[i], new)}
        others == Pop(obEntries, held)
        popped(n) == {obEntries[i] : i \in held} \cup ToSet(SubSeq(others, 1, n))
        events(n) == obEvents - ObEvents(popped(n))
        bytes(n)  == obBytes - ObBytes(popped(n))
        gone   == Min({n \in 0..Len(others) :
                         n = Len(others) \/ FitsNow(events(n), bytes(n), new)})
    IN  IF new.events > ObMaxEvents \/ new.bytes > ObMaxBytes
          THEN ObKeep
          ELSE /\ obEntries' = Append(SubSeq(others, gone + 1, Len(others)), new)
               /\ obEvents' = events(gone) + new.events
               /\ obBytes' = bytes(gone) + new.bytes
               /\ obBudget' = obBytes'

\* The identity is taken again before the stream is kept; a stream of the whole
\* recording is kept as one up to its end.
StillSame == obCall.key = ObKey

KeepStream ==
    /\ obPc = "recheck"
    /\ IF StillSame
         THEN ObPut([kind |-> "stream", key |-> obCall.key, from |-> obCall.from,
                     to |-> ObUntil(obCall.to), at |-> ObUnseen,
                     value |-> obCall.stream, events |-> ObEventsOf(obCall.stream),
                     bytes |-> ObBytesOf(obCall.stream)])
         ELSE ForgetOld
    /\ obKnown' = obGen
    /\ Answer(obCall.stream)
    /\ UNCHANGED <<obGen, obParser, obNamespace, obCalls, obLast>>

\* _sample: the last record up to the instant, from the stream of the window.
ObValueIn(stream, at) ==
    LET upto == ObBelow(stream.rows, at + 1)
    IN  [gen |-> stream.gen,
         value |-> IF upto = 0 THEN stream.predecessor ELSE <<stream.rows[upto]>>]

\* sample_put, under the identity the sample's own lookup took.
PutSample ==
    /\ obPc = "sampled"
    /\ ObPut([kind |-> "sample", key |-> obCall.sample, from |-> obCall.from, to |-> obCall.to,
              at |-> obCall.at, value |-> ObValueIn(obCall.stream, obCall.at),
              events |-> 1, bytes |-> 2])
    /\ obPc' = "idle"
    /\ obCall' = ObNothing
    /\ UNCHANGED <<obGen, obParser, obKnown, obNamespace, obCalls, obLast>>

ReplaceRecording ==
    /\ obGen + 1 \in DOMAIN ObRows
    /\ obGen' = obGen + 1
    /\ UNCHANGED <<obParser, obKnown, obNamespace, obEntries, obEvents, obBytes, obBudget,
                   obCalls, obPc, obCall, obLast>>

ObsNext ==
    \/ Bind
    \/ \E w \in ObWindows : BeginObservation("stream", w.from, w.to, ObUnseen)
    \/ \E w \in ObInstants : BeginObservation("sample", w.from, w.to, w.at)
    \/ TakeIdentity \/ LoadFile \/ ServeHit \/ SampleMissed \/ ReadStream \/ KeepStream \/ PutSample
    \/ ReplaceRecording

ObsSpec == ObsInit(ObNamespaces) /\ [][ObsNext]_obsVars

\* What a fresh read of the generation returns for the same question.
FreshAnswer(q) ==
    LET stream == ObRead(q.value.gen, q.from, q.to)
    IN  IF q.kind = "stream" THEN stream ELSE ObValueIn(stream, q.at)

\* A stream or sample served from the session is what a fresh read of its own
\* window returns, predecessor included, and it is never of a generation older
\* than the one on disk when the call asked for its parser.
HitIsFresh ==
    obLast # ObNothing => obLast.value = FreshAnswer(obLast) /\ obLast.value.gen >= obLast.begun

\* After any sequence of reads, replacements, evictions and clears the session
\* holds no more records and bytes than its limits, and its counters and the
\* attempt's budget are the sums of what it holds.
ObservationsAccounted ==
    /\ obEvents = ObEvents(ToSet(obEntries)) /\ obEvents <= ObMaxEvents
    /\ obBytes = ObBytes(ToSet(obEntries)) /\ obBytes <= ObMaxBytes
    /\ obBudget = obBytes

\* What the session serves is fresh, and what it holds is accounted for.
ObservationsTrue == HitIsFresh /\ ObservationsAccounted
================================================================================
