-------------------------------- MODULE ErnEars --------------------------------
(***************************************************************************)
(* How the station hears other stations: a child process listens to their  *)
(* stream and prints the SAME messages it decodes (same/listen.py with     *)
(* same/decode.py, or same/listen_samedec.py with the external samedec),   *)
(* and a monitor reads what it prints, filters it, puts it in a queue and  *)
(* starts the child anew (broadcast/ern_gwes.py).                          *)
(*                                                                         *)
(* Time is the position in the stream.  A message is                       *)
(* sent in bursts; a burst decodes if a window holds all of it, for tones, *)
(* bits and confidence are left out.  Tones are heard where there is a     *)
(* burst, and possibly elsewhere.  The listener keeps up with the stream,  *)
(* so that the time of an event is the position at which it is printed,    *)
(* and the ten seconds it keeps are more than any window.                  *)
(***************************************************************************)
EXTENDS Integers, Sequences, FiniteSets, FiniteSetsExt

CONSTANTS
  Air,         \* the messages of the stream: [text, bursts], bursts as <<from, to>>
  Dropped,     \* the headers that are not for our area
  Frame,       \* the frames that must be hot
  Ahead, Back, \* lookahead_seconds and lookback_seconds
  Chunk,       \* bound: the longest read
  Dedupe,      \* dedupe_seconds
  Lag,         \* how long samedec takes to write what it was fed, at most
  Pauses,      \* times for which a stream that ended or stalled is not heard
  Respawn,     \* the sleep before the child starts again
  QueueMax,    \* size of the queue
  LastTime,    \* bound: length of the stream
  MaxBreaks    \* bound: ends of the stream and of processes

ASSUME EarsAssumption ==
  /\ \A m \in Air : \A b \in m.bursts : b[1] \in Nat /\ b[2] \in Nat /\ b[1] < b[2]
  /\ Frame \in Nat \ {0} /\ Ahead \in Nat /\ Back \in Nat /\ Chunk \in Nat \ {0}
  /\ Dedupe \in Nat \ {0} /\ Lag \in Nat /\ Pauses \subseteq Nat
  /\ Respawn \in Nat \ {0} /\ QueueMax \in Nat \ {0}

Texts == {m.text : m \in Air}

VARIABLES
  backend,  \* "native" or "samedec"
  t,        \* the position in the stream
  child,    \* what the child does
  begun,     \* the position at which its ffmpeg was started
  cursor,   \* frame_cursor, counted from the start of the stream
  samedec,  \* "runs" or "gone"
  written,  \* the texts that samedec wrote and nobody read
  outBuf,   \* out_buf
  found,    \* the messages that this samedec has decoded
  emitted,  \* last_emit_at: the time of each text, long ago at first
  lines,    \* what the child printed and the monitor did not read
  queue,    \* out_queue
  breaks,   \* ends of the stream and of processes so far
  born,     \* history: when this child was started
  said,     \* history: what the children printed, as [text, at, born]
  wasted    \* history: what samedec wrote before it exited and nobody read

heardVars == <<emitted, lines, said>>
samedecVars == <<samedec, written, outBuf, found>>
earsVars == <<backend, t, child, begun, cursor, samedecVars, heardVars, queue, breaks, born, wasted>>

NeverEmitted == [x \in Texts |-> -Dedupe]

EarsInit ==
  /\ backend \in {"native", "samedec"}
  /\ t = 0 /\ child = "reads" /\ begun = 0 /\ cursor = 0
  /\ samedec = "runs" /\ written = <<>> /\ outBuf = <<>> /\ found = {}
  /\ emitted = NeverEmitted /\ lines = <<>> /\ queue = <<>> /\ breaks = 0
  /\ born = 0 /\ said = {} /\ wasted = {}

Break == breaks < MaxBreaks /\ breaks' = breaks + 1
-------------------------------------------------------------------------------
(* Both listeners.                                                         *)

\* A text that was decoded is printed, unless this child printed it within
\* dedupe_seconds.
Say(x) ==
  IF t - emitted[x] < Dedupe THEN UNCHANGED heardVars
  ELSE /\ emitted' = [emitted EXCEPT ![x] = t]
       /\ lines' = Append(lines, x)
       /\ said' = said \cup {[text |-> x, at |-> t, born |-> born]}

\* A chunk of samples from ffmpeg.  samedec is fed, unless it is gone.
ReceiveChunk ==
  /\ child = "reads"
  /\ backend = "samedec" => samedec = "runs"
  /\ \E n \in 1 .. Chunk : t + n <= LastTime /\ t' = t + n
  /\ child' = "scans"
  /\ UNCHANGED <<backend, begun, cursor, samedecVars, heardVars, queue, breaks, born, wasted>>

\* The stream ends or stalls, or ffmpeg fails: the native listener starts it
\* anew, the other first closes the input of samedec.
StreamEnds ==
  /\ child = "reads" /\ Break
  /\ child' = IF backend = "native" THEN "pauses" ELSE "drains"
  /\ UNCHANGED <<backend, t, begun, cursor, samedecVars, heardVars, queue, born, wasted>>

\* A new ffmpeg, after a pause, with a new buffer and a new samedec.
Begin(pause) ==
  /\ t' = t + pause /\ begun' = t + pause /\ cursor' = t + pause
  /\ child' = "reads"
  /\ samedec' = "runs" /\ written' = <<>> /\ outBuf' = <<>> /\ found' = {}

\* Mutated form: what was printed is forgotten with the stream.
ResumeForgetful ==
  /\ child = "pauses"
  /\ \E p \in Pauses : Begin(p)
  /\ emitted' = NeverEmitted
  /\ UNCHANGED <<backend, lines, said, queue, breaks, born, wasted>>

Resume ==
  /\ child = "pauses"
  /\ \E p \in Pauses : Begin(p)
  /\ UNCHANGED <<backend, heardVars, queue, breaks, born, wasted>>
-------------------------------------------------------------------------------
(* The native listener: same/listen.py, same/decode.py.                    *)

InBurst(c) == \E m \in Air : \E b \in m.bursts : b[1] <= c /\ c + Frame <= b[2]

\* Mutated form: a window begins where its tones were heard.
WindowAhead(c) == <<c, Min({t, c + Frame + Ahead})>>

\* What is looked at when a frame was hot: as much of it as was received.
Window(c) == <<Max({begun, c + Frame + Ahead - Back}), Min({t, c + Frame + Ahead})>>

\* _try_decode_message_at finds a message from its preamble to its end.
Decodable(w) == {m.text : m \in {n \in Air : \E b \in n.bursts : w[1] <= b[1] /\ b[2] <= w[2]}}

\* One frame; the cursor jumps over what is ahead, received or not.  Of the
\* messages in a window the clearest is returned.
Scan ==
  /\ child = "scans" /\ backend = "native"
  /\ cursor + Frame <= t
  /\ \/ /\ cursor' = cursor + Frame + Ahead
        /\ LET heard == Decodable(Window(cursor))
           IN  IF heard = {} THEN UNCHANGED heardVars ELSE \E x \in heard : Say(x)
     \/ /\ ~InBurst(cursor)
        /\ cursor' = cursor + 1
        /\ UNCHANGED heardVars
  /\ UNCHANGED <<backend, t, child, begun, samedecVars, queue, breaks, born, wasted>>

Scanned ==
  /\ child = "scans" /\ backend = "native"
  /\ cursor + Frame > t
  /\ child' = "reads"
  /\ UNCHANGED <<backend, t, begun, cursor, samedecVars, heardVars, queue, breaks, born, wasted>>
-------------------------------------------------------------------------------
(* The listener with samedec: same/listen_samedec.py.                      *)

\* samedec, which is external, writes the text of a message soon after a burst
\* that it was fed.
Write ==
  /\ backend = "samedec" /\ samedec = "runs" /\ child \in {"reads", "scans", "drains"}
  /\ \E m \in Air \ found :
       /\ \E b \in m.bursts : begun <= b[1] /\ b[2] <= t /\ t <= b[2] + Lag
       /\ found' = found \cup {m} /\ written' = Append(written, m.text)
  /\ UNCHANGED <<backend, t, child, begun, cursor, samedec, outBuf, heardVars, queue, breaks, born, wasted>>

\* It exits when its input is closed, or fails.
Exit ==
  /\ backend = "samedec" /\ samedec = "runs"
  /\ IF child = "drains" THEN UNCHANGED breaks ELSE Break
  /\ samedec' = "gone"
  /\ UNCHANGED <<backend, t, child, begun, cursor, written, outBuf, found, heardVars, queue, born, wasted>>

\* _drain_samedec_stdout, the reading.  When it finds the end of the output it
\* raises, and what it just read is not parsed.
Drain ==
  /\ child \in {"scans", "drains"} /\ backend = "samedec" /\ samedec = "runs"
  /\ written # <<>>
  /\ outBuf' = outBuf \o written /\ written' = <<>>
  /\ UNCHANGED <<backend, t, child, begun, cursor, samedec, found, heardVars, queue, breaks, born, wasted>>

\* ... and the parsing of complete lines.
Parse ==
  /\ child \in {"scans", "drains"} /\ backend = "samedec"
  /\ outBuf # <<>>
  /\ Say(Head(outBuf)) /\ outBuf' = Tail(outBuf)
  /\ UNCHANGED <<backend, t, child, begun, cursor, samedec, written, found, queue, breaks, born, wasted>>

\* Nothing more for now: the next chunk is read.
Drained ==
  /\ child = "scans" /\ backend = "samedec" /\ samedec = "runs"
  /\ written = <<>> /\ outBuf = <<>>
  /\ child' = "reads"
  /\ UNCHANGED <<backend, t, begun, cursor, samedecVars, heardVars, queue, breaks, born, wasted>>

\* The listener finds that samedec is gone, after the end of the stream too.
NoticeExit ==
  /\ backend = "samedec" /\ samedec = "gone" /\ outBuf = <<>>
  /\ child \in {"reads", "scans", "drains"}
  /\ child' = "pauses"
  /\ wasted' = IF child = "drains" THEN wasted \cup Range(written) ELSE wasted
  /\ UNCHANGED <<backend, t, begun, cursor, samedecVars, heardVars, queue, breaks, born>>
-------------------------------------------------------------------------------
(* The monitor: ErnGwesMonitor.run_forever.                                *)

\* A line is parsed and filtered, and dropped when the queue is full.
ReadLine ==
  /\ lines # <<>>
  /\ lines' = Tail(lines)
  /\ queue' = IF Head(lines) \in Dropped \/ Len(queue) >= QueueMax THEN queue
              ELSE Append(queue, Head(lines))
  /\ UNCHANGED <<backend, t, child, begun, cursor, samedecVars, emitted, said, breaks, born, wasted>>

\* The relay runtime, which has its own module, takes the next event.
Take ==
  /\ queue # <<>> /\ queue' = Tail(queue)
  /\ UNCHANGED <<backend, t, child, begun, cursor, samedecVars, heardVars, breaks, born, wasted>>

\* The child ends; what it had printed can still be read.
ChildEnds ==
  /\ child # "ended" /\ Break
  /\ child' = "ended"
  /\ UNCHANGED <<backend, t, begun, cursor, samedecVars, heardVars, queue, born, wasted>>

\* Another child knows nothing of what the last one printed.
StartChild ==
  /\ child = "ended" /\ lines = <<>>
  /\ Begin(Respawn) /\ born' = t + Respawn
  /\ emitted' = NeverEmitted
  /\ UNCHANGED <<backend, lines, said, queue, breaks, wasted>>

Listener == ReceiveChunk \/ StreamEnds \/ Resume
Native == Scan \/ Scanned
Samedec == Write \/ Exit \/ Drain \/ Parse \/ Drained \/ NoticeExit
Monitor == ReadLine \/ Take \/ ChildEnds \/ StartChild

EarsNext == Listener \/ Native \/ Samedec \/ Monitor

EarsSpec == EarsInit /\ [][EarsNext]_earsVars
-------------------------------------------------------------------------------
(* Properties                                                              *)

\* An event answers to a message when its child was there for a burst, and
\* printed it no later than a window reaches back, or samedec takes.
Reach == Back + Lag + Chunk

Answers(e, m) ==
  /\ e.text = m.text
  /\ \E b \in m.bursts : e.born <= b[1] /\ b[2] <= e.at /\ e.at <= b[2] + Reach

\* Its bursts all end, and are all heard, within dedupe_seconds.
Brief(m) == \A b, c \in m.bursts : c[2] + Reach < b[2] + Dedupe

\* The same text is not sent so near to it that either is dropped for the other.
Alone(m) ==
  \A n \in Air \ {m} : n.text = m.text =>
    \A b \in n.bursts, c \in m.bursts :
      b[2] + Reach + Dedupe <= c[2] \/ c[2] + Reach < b[2]

Heard(m) == \E e \in said : Answers(e, m)

\* A message that was sent in full.
Sent(m) == \A b \in m.bursts : b[2] + Frame + Ahead <= t

\* Two of its bursts are so near that a window which is looked at as soon as
\* the second begins reaches back over the first, and so far apart that the
\* cursor does not jump over both; no other message is in such a window.
Short(m) ==
  \E b, c \in m.bursts :
    /\ b[2] + Ahead <= c[1] /\ c[1] + Frame <= c[2]
    /\ c[1] + Frame + Ahead <= b[1] + Back
    /\ \A n \in Air \ {m} : \A d \in n.bursts : d[1] < b[2] - Back \/ c[1] + Frame + Ahead < d[2]

\* The native listener hears every message whose bursts fit its windows,
\* wherever the reads cut the stream and whatever noise sets it off, as long as
\* the stream does not break; samedec's messages are passed on.  The same text
\* that is sent again later makes another event.
ShortIsHeard ==
  breaks = 0 /\ child = "reads" =>
    \A m \in Air : Alone(m) =>
      /\ backend = "native" /\ Sent(m) /\ Short(m) => Heard(m)
      /\ backend = "samedec" /\ m \in found => Heard(m) \/ m.text \in Range(written)

\* Every event answers to a message, and the bursts of a message that fits in
\* dedupe_seconds make one event by one child, over breaks of the stream too: a
\* message is repeated only by a child that was started anew while it was sent.
SaidOnce ==
  /\ \A e \in said : \E m \in Air : Answers(e, m)
  /\ \A m \in Air : Brief(m) =>
       \A e, f \in said : Answers(e, m) /\ Answers(f, m) /\ e.born = f.born => e = f

\* A comment of same/decode.py says of the blocks of a header "max PSSCCC
\* blocks per header (spec)": 31.  Hence, a header of that length is heard.
LongIsHeard ==
  backend = "native" /\ breaks = 0 /\ child = "reads" =>
    \A m \in Air : Sent(m) => Heard(m)

\* A comment of listen_samedec.py says, at the end of the stream, "Signal EOF
\* to samedec and drain anything it already decoded".
DecodedIsDrained == wasted = {}
===============================================================================
