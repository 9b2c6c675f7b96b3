---------------------------- MODULE PublicNotices ----------------------------
(***************************************************************************)
(* Public information statements (broadcast/pns.py, pns_runtime.py and     *)
(* their branch of nwws_runtime.py): which of them the cycle speaks, when  *)
(* the text that the weather wire delivers is replaced by that of the API, *)
(* and the loop that recovers what the wire lost.                          *)
(*                                                                         *)
(* Phrases stand for the words of a text.  A unit of time is a part of a   *)
(* day, longer than the 900 seconds for which a key is reserved and the    *)
(* 120 seconds between two passes; a request takes less.                   *)
(***************************************************************************)
EXTENDS Integers, Sequences, SequencesExt

CONSTANTS
  Text,       \* the statements, by number: office; at and until; dated and coded, whether
              \* the text says so; headline and phrases, all of them; tables,
              \* what looks like a table; spoken, what of it stands before the
              \* delimiter; empty; alike, whether the wire and the API begin with
              \* the same 1200 characters
  Offices,    \* backfill_wfos(), in order
  Configured, \* the subtypes of the configuration, if any
  DayLen,     \* units of time in a day
  LocalDay,   \* the time at which the second local day begins
  Months,     \* the days of each month; the first and last have no statement
  Default,    \* default_expire_hours
  Tolerance,  \* the time between two issuances that pass for one
  Rejected,   \* reject_audio_keywords
  EndOfTime,  \* bound: time
  MaxFaults   \* bound: requests that fail, deliveries that are lost, restarts

Undated == -1

Notices == DOMAIN Text

Subtype(name, headline, all, any, fresh, sameDay) ==
  [name |-> name, headline |-> headline, all |-> all, any |-> any,
   fresh |-> fresh, sameDay |-> sameDay]

\* Eighteen hours, two days and one day.
DefaultSubtypes ==
  <<Subtype("severe_weather_safety_rules", {"rules"}, {}, {}, (3 * DayLen) \div 4, TRUE),
    Subtype("nwr_transmitter_outage", {}, {"radio", "transmitter"}, {"off"}, 2 * DayLen, FALSE),
    Subtype("nwr_transmitter_restoration", {}, {"radio", "transmitter"}, {"restored"},
            DayLen, FALSE)>>

\* policy_from_config
Subtypes == IF Configured = <<>> THEN DefaultSubtypes ELSE Configured

ASSUME NoticesAssumption ==
  /\ DayLen \in Nat \ {0} /\ Default \in Nat \ {0} /\ Tolerance \in Nat
  /\ Offices \in Seq(STRING)
  /\ \A n \in Notices : /\ Text[n].at \in 0 .. EndOfTime /\ Text[n].until >= Text[n].at
                        /\ Text[n].office \in Range(Offices)
                        /\ Text[n].headline \subseteq Text[n].phrases
                        /\ \A m \in DOMAIN Months : Text[n].until - Text[n].at < DayLen * Months[m]
-------------------------------------------------------------------------------
(* What a text says of its times.                                          *)

\* parse_nws_header_issued_dt
Issued(n, fallback) == IF Text[n].dated THEN Text[n].at ELSE fallback

MonthStart ==
  [m \in DOMAIN Months |->
     DayLen * FoldLeftDomain(LAMBDA days, i : IF i < m THEN days + Months[i] ELSE days,
                             -Months[1], Months)]

\* The months follow one another, and every statement begins and ends in one.
ASSUME CalendarAssumption ==
  /\ Months \in Seq(Nat \ {0})
  /\ \A m \in DOMAIN Months : MonthStart[m] \in Int
  /\ \A m, o \in DOMAIN Months :
       m < o => /\ MonthStart[m] + DayLen * Months[m] <= MonthStart[o]
                /\ o = m + 1 => MonthStart[m] + DayLen * Months[m] = MonthStart[o]
  /\ \A n \in Notices : \A t \in {Text[n].at, Text[n].until} :
       t \in Nat /\ \E m \in DOMAIN Months : MonthStart[m] <= t /\ t < MonthStart[m] + DayLen * Months[m]

InMonth(t) == CHOOSE m \in DOMAIN Months :
                MonthStart[m] <= t /\ t < MonthStart[m] + DayLen * Months[m]

Distance(s, t) == IF s < t THEN t - s ELSE s - t

Nearest(times, t) == CHOOSE s \in times : \A r \in times : Distance(s, t) <= Distance(r, t)

\* parse_ugc_expiry_utc: the code is a time in some month, which is the one
\* that brings it next after the text was issued.
UgcExpiry(code, issued) ==
  LET month == InMonth(issued)
      times == {MonthStart[m] + code :
                  m \in {o \in DOMAIN Months : Distance(o, month) <= 1
                                               /\ code < DayLen * Months[o]}}
      future == {s \in times : s >= issued}
  IN  Nearest(IF future = {} THEN times ELSE future, issued)

\* The time in its month, as a code gives it.
Code(t) == t - MonthStart[InMonth(t)]

\* Mutated form: the day is sought from today on.
ExpiryFromNow(n, issued, now) ==
  IF issued # Undated /\ Text[n].coded
    THEN UgcExpiry(Code(Text[n].until), now)
    ELSE (IF issued = Undated THEN now ELSE issued) + Default

\* The expiry of a decision.
Expiry(n, issued, now) ==
  IF issued # Undated /\ Text[n].coded
    THEN UgcExpiry(Code(Text[n].until), issued)
    ELSE (IF issued = Undated THEN now ELSE issued) + Default
-------------------------------------------------------------------------------
(* What is spoken.                                                         *)

\* _match_subtype.  No subtype is disabled, has words of its own to reject, or is
\* without audio.
Matches(n, s) ==
  /\ s.headline # {} => Text[n].headline \cap s.headline # {}
  /\ s.all \subseteq Text[n].phrases
  /\ s.any # {} => Text[n].phrases \cap s.any # {}

Matching(n) == SelectSeq(Subtypes, LAMBDA s : Matches(n, s))

\* detect_computer_block_signals, of the text and of what is to be spoken.
Signals(n) ==
  Text[n].tables \cup (Text[n].spoken \ {"metadata"})
           \cup (IF Text[n].phrases \cap Rejected # {} THEN {"reject_keyword"} ELSE {})

\* The gate of a subtype for texts that were made for computers.
Coherent(n, s) ==
  CASE s.name = "severe_weather_safety_rules" ->
         Signals(n) \cap {"table_header", "aligned_rows", "numeric_dense", "latlon_rows"} = {}
    [] s.name \in {"nwr_transmitter_outage", "nwr_transmitter_restoration"} -> TRUE
    [] OTHER -> Signals(n) = {}

LocalDate(t) == (t - LocalDay) \div DayLen

Fresh(s, issued, now) ==
  /\ issued # Undated /\ issued <= now
  /\ s.fresh > 0 => now - issued <= s.fresh
  /\ s.sameDay => LocalDate(issued) = LocalDate(now)

\* evaluate: the decision is audio.
Audio(n, fallback, now) ==
  LET issued == Issued(n, fallback)
      s == Head(Matching(n))
  IN  /\ Expiry(n, issued, now) >= now
      /\ Matching(n) # <<>> /\ Coherent(n, s)
      /\ Fresh(s, issued, now)
      /\ ~Text[n].empty
-------------------------------------------------------------------------------
VARIABLES
  now,       \* the time
  coming,    \* statements that the wire has not delivered yet
  handled,   \* the statement that the wire's runtime asks the API about, if any
  latest,    \* the latest statement of each office in the API, if any
  offices,   \* the offices that are left of a pass
  reserved,  \* _recent_air_keys
  entries,   \* the tracker: [key, notice, expires]
  faults,    \* faults so far
  due,       \* history: statements that were found fit to be spoken
  announced  \* history: statements that came into the tracker

noticeVars == <<now, coming, handled, latest, offices, reserved, entries, faults, due, announced>>

IssuedAt(t) == {n \in Notices : Text[n].at = t}

NoticesInit ==
  /\ now = 0 /\ coming = IssuedAt(0) /\ handled = {} /\ offices = <<>>
  /\ latest = [o \in Range(Offices) |-> {}]
  /\ reserved = {} /\ entries = {} /\ faults = 0 /\ due = {} /\ announced = {}

Key(n, source) == <<n, IF Text[n].alike THEN "both" ELSE source>>

\* queue_decision: a key that is reserved stays as it is, another comes into
\* the tracker, in the place of an entry with the same key.
Queue(n, source, fallback) ==
  IF Audio(n, fallback, now) /\ Key(n, source) \notin reserved
    THEN /\ reserved' = reserved \cup {Key(n, source)}
         /\ entries' = {e \in entries : e.key # Key(n, source)}
                         \cup {[key |-> Key(n, source), notice |-> n,
                                expires |-> Expiry(n, Issued(n, fallback), now)]}
         /\ announced' = announced \cup {n}
    ELSE UNCHANGED <<reserved, entries, announced>>

\* The API has a statement, some time after it was issued.
Publish(n) ==
  /\ Text[n].at <= now /\ \A m \in latest[Text[n].office] : Text[m].at < Text[n].at
  /\ latest' = [latest EXCEPT ![Text[n].office] = {n}]
  /\ UNCHANGED <<now, coming, handled, offices, reserved, entries, faults, due, announced>>

\* The wire delivers a statement, or loses it.
Deliver(n, loses) ==
  /\ n \in coming /\ (IF loses THEN faults < MaxFaults ELSE handled = {})
  /\ coming' = coming \ {n}
  /\ handled' = (IF loses THEN handled ELSE {n})
  /\ faults' = (IF loses THEN faults + 1 ELSE faults)
  /\ UNCHANGED <<now, latest, offices, reserved, entries, due, announced>>

\* pns_text_same_issuance: the wire gives no time but the text's, the API does.
SameIssuance(n, m) == Text[n].dated /\ Distance(Text[n].at, Text[m].at) <= Tolerance

\* run of the wire's runtime: the text of the API, if it answers and has the
\* same issuance, else the text that came.
Handle(n, answers) ==
  /\ n \in handled /\ (answers \/ faults < MaxFaults)
  /\ handled' = {}
  /\ LET other == IF answers THEN {m \in latest[Text[n].office] : SameIssuance(n, m)} ELSE {}
     IN  IF other = {} THEN Queue(n, "wire", Undated)
                       ELSE \E m \in other : Queue(m, "api", Undated)
  /\ due' = (IF Audio(n, Undated, now) THEN due \cup {n} ELSE due)
  /\ faults' = (IF answers THEN faults ELSE faults + 1)
  /\ UNCHANGED <<now, coming, latest, offices>>

\* run_backfill_loop
BeginBackfill ==
  /\ offices = <<>> /\ offices' = Offices
  /\ UNCHANGED <<now, coming, handled, latest, reserved, entries, faults, due, announced>>

\* backfill_latest_once, of one office; one that fails is passed over.
Backfill(answers) ==
  /\ offices # <<>> /\ offices' = Tail(offices)
  /\ IF answers
       THEN /\ \/ latest[Head(offices)] = {} /\ UNCHANGED <<reserved, entries, announced, due>>
               \/ \E m \in latest[Head(offices)] :
                    /\ Queue(m, "api", Text[m].at)
                    /\ due' = (IF Audio(m, Text[m].at, now) THEN due \cup {m} ELSE due)
            /\ UNCHANGED faults
       ELSE /\ faults < MaxFaults /\ faults' = faults + 1
            /\ UNCHANGED <<reserved, entries, announced, due>>
  /\ UNCHANGED <<now, coming, handled, latest>>

\* A unit of time: reservations end and the tracker prunes what has expired.
NoticesTick ==
  /\ now < EndOfTime /\ handled = {} /\ offices = <<>>
  /\ now' = now + 1
  /\ coming' = coming \cup IssuedAt(now + 1)
  /\ reserved' = {}
  /\ entries' = {e \in entries : e.expires > now + 1}
  /\ UNCHANGED <<handled, latest, offices, faults, due, announced>>

\* The tracker is saved; what is on the way is lost.
NoticesRestart ==
  /\ faults < MaxFaults /\ faults' = faults + 1
  /\ handled' = {} /\ offices' = <<>> /\ reserved' = {}
  /\ UNCHANGED <<now, coming, latest, entries, due, announced>>

NoticesNext ==
  \/ \E n \in Notices : \/ Publish(n)
                       \/ \E b \in BOOLEAN : Deliver(n, b) \/ Handle(n, b)
  \/ BeginBackfill \/ \E answers \in BOOLEAN : Backfill(answers)
  \/ NoticesTick \/ NoticesRestart

NoticesSpec == NoticesInit /\ [][NoticesNext]_noticeVars
-------------------------------------------------------------------------------
(* Properties.                                                             *)

\* A statement that was fit to be spoken when it came is spoken: the API does
\* not put an older one in its place, and a key that is reserved belongs to
\* one that is spoken.  Two that an office issues within the tolerance are
\* left out: the one may pass for the other.
FitIsSpoken ==
  \A n \in due \ announced :
     \E m \in Notices \ {n} : /\ Text[m].office = Text[n].office
                              /\ Distance(Text[n].at, Text[m].at) <= Tolerance

\* However often the loop finds a statement, its entry ends when the statement
\* does, also across the end of a month.
NoneIsProlonged ==
  \A e \in entries :
     LET n == Text[e.notice]
     IN  e.expires = IF n.coded THEN n.until ELSE n.at + Default

NoticesHold == FitIsSpoken /\ NoneIsProlonged
===============================================================================
