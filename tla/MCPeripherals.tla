---------------------------- MODULE MCPeripherals ----------------------------
EXTENDS Peripherals, TLC

(* Ears: units of about 400 ms.  A header with one location takes 0.9 s    *)
(* and is sent three times, a second apart; later the same header is sent  *)
(* again, with one burst lost.                                             *)
Message(text, bursts, first, length, gap) ==
  [text |-> text,
   bursts |-> {<<first + i * (length + gap), first + i * (length + gap) + length>> : i \in 0 .. bursts - 1}]

MCAir == {Message("header", 3, 3, 3, 2), Message("header", 2, 44, 3, 2)}
MCPauses == {1, 10}

(* Programme: the identification is the most frequent segment.             *)
MCOrder == <<"id", "health", "status", "obs">>
MCInterval == [k \in Range(MCOrder) |-> IF k \in {"id", "health"} THEN 2 ELSE 3]

(* Rotation: an alert that holds the focus, a test and a marine warning    *)
(* that do not.                                                            *)
MCAlerts == {[source |-> "CAP", code |-> "TOA", test |-> FALSE, sigs |-> {"A"}],
             [source |-> "ERN", code |-> "TOR", test |-> TRUE, sigs |-> {}],
             [source |-> "NWWS", code |-> "SVR", test |-> FALSE, sigs |-> {"Y"}]}
MCPolicy == [excludedSources |-> {"PNS"}, tests |-> {"RWT"}, codes |-> {"TOA", "TOR", "SVR"},
             sigs |-> {"W", "A"}, marine |-> {"SMW", "MWS"}, marineHolds |-> {"SMW"}]
MCBase == <<"status", "zfp", "cwf">>
MCFocus == <<"status">>
MCGap == <<<<"zfp", 3>>, <<"cwf", 5>>>>

(* Targets: two forecast zones, a marine zone, a county and a zone that only  *)
(* the service knows; months with the end of February and of the year.     *)
Montgomery == <<"MDZ", 501>>
Bay == <<"ANZ", 535>>
Cambria == <<"PAC", 21>>
MCKnown == (Montgomery :> {<<24, 31>>, <<24, 33>>}) @@ (<<"MDZ", 502>> :> {<<24, 9>>}) @@ (<<"MDZ", 500>> :> {<<24, 0>>})
             @@ (Bay :> {<<73, 535>>}) @@ (Cambria :> {<<42, 21>>})
Token(pfx, num, end) == [pfx |-> pfx, num |-> num, end |-> end]
MCProducts == {<<Token("MDZ", 502, 500), Token("ANZ", 535, 535)>>, <<Token("PAC", 21, 21)>>}
MCCounties == {Cambria}
MCForecast == {Montgomery, <<"MDZ", 502>>}
MCTorn == {Montgomery}
MCMarine == {Bay}
MCArea == {<<24, 31>>, <<73, 535>>}
MCDays == <<31, 31, 28, 31, 30, 31, 31, 30>>

(* Statements: two in a unit of time, one of them past the end of a month; *)
(* one that does not say when it ends and one that does not say when it    *)
(* was issued.                                                             *)
Statement(office, issued, ends, text) == text @@ [office |-> office, at |-> issued, until |-> ends]
Words(dated, coded, headline, phrases, tables, alike) ==
  [dated |-> dated, coded |-> coded, headline |-> headline, phrases |-> headline \cup phrases,
   tables |-> tables, spoken |-> {}, empty |-> FALSE, alike |-> alike]
MCText ==
  <<Statement("AKQ", 0, 2, Words(TRUE, FALSE, {"rules"}, {}, {}, TRUE)),
    Statement("LWX", 2, 5, Words(TRUE, TRUE, {}, {"radio", "transmitter", "restored"}, {}, FALSE)),
    Statement("LWX", 2, 4, Words(TRUE, TRUE, {}, {"radio", "transmitter", "off"},
                                 {"latlon_rows"}, TRUE)),
    Statement("AKQ", 3, 5, Words(FALSE, TRUE, {"rules"}, {}, {}, TRUE))>>
MCOffices == <<"AKQ", "LWX">>
MCNoSubtypes == <<>>
MCMonths == <<3, 2, 3, 3>>

(* Liquidsoap: the script of the repository, which also has the numbered   *)
(* queues, and three older generations.                                    *)
Pushes(prefixes) == [i \in DOMAIN prefixes |-> Command(prefixes[i], "push")]
Current ==
  [planes |-> [i \in Planes |-> {Sw(Kinds[i]), Anonymous(i - 1)}],
   help |-> Pushes([i \in Planes |-> Anonymous(i - 1)])
              \o Pushes([i \in Planes |-> Sw(Kinds[i])])
              \o <<Command(Sw("cycle"), "push_b64"), Reset,
                   Command(Sw("full_alert"), "skip"), Status>>]
WithIds ==
  [planes |-> [i \in Planes |-> {Id(Kinds[i])}],
   help |-> Pushes([i \in Planes |-> Id(Kinds[i])])
              \o <<Command(Id("cycle"), "flush_and_skip")>>]
TwoPlanes ==
  [planes |-> <<{Id("cycle")}, {Id("alert")}>>,
   help |-> Pushes(<<Id("alert"), Id("cycle")>>)
              \o <<Command(Id("cycle"), "skip"), Command(Id("alert"), "skip")>>]
Numbered ==
  [planes |-> [i \in Planes |-> {Anonymous(i - 1)}],
   help |-> Pushes(<<Anonymous(1), Anonymous(2), Anonymous(0)>>)
              \o <<Command(Anonymous(0), "flush_and_skip")>>]
MCScripts == {Current, WithIds, TwoPlanes, Numbered}
MCCalls == {[does |-> "push", plane |-> p] : p \in Planes}
             \cup {[does |-> "reset", plane |-> 1], [does |-> "status", plane |-> 1]}

(* Discord: a test, an alert that is not a voice, a failure and a report   *)
(* of detail, which is switched off.                                       *)
MCEvents == {[kind |-> "aired", test |-> TRUE, voice |-> FALSE, failed |-> FALSE],
             [kind |-> "aired", test |-> FALSE, voice |-> FALSE, failed |-> FALSE],
             [kind |-> "audio", test |-> FALSE, voice |-> FALSE, failed |-> TRUE],
             [kind |-> "decision", test |-> FALSE, voice |-> FALSE, failed |-> FALSE]}
===============================================================================
