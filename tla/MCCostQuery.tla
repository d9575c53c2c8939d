---------------------------- MODULE MCCostQuery ----------------------------
(***************************************************************************)
(* Instance of CostQuery for TLC: a clock that is read every nine hours    *)
(* and half a second from a minute before Monday, 1 January 2024, to       *)
(* April, so that it comes by at all hours, shortly before and after       *)
(* midnight too, on all weekdays, in months of 29, 30 and 31 days and      *)
(* after a new year; time zones on both sides of UTC, two of them with     *)
(* minutes.  int64 is cut to 2^30 half seconds, so that days by the        *)
(* thousand overflow.  Filters are those of up to two terms.               *)
(***************************************************************************)
EXTENDS CostQuery

MCZones == {0, 8 * Hour, 5 * Hour + 45 * Minute, -9 * Hour - 30 * Minute}

MCFirsts == {-61, -31, 0, 31, 60, 91, 121}

Window(kind, n, u, n2, u2) == [kind |-> kind, num |-> n, unit |-> u, num2 |-> n2, unit2 |-> u2]
MCWindows ==
  {Window(k, 0, "", 0, "") :
     k \in {"today", "yesterday", "week", "lastweek", "month", "lastmonth", "illegal"}}
  \cup {Window("past", n[1], n[2], 0, "") :
          n \in {<<0, "d">>, <<1, "d">>, <<7, "d">>, <<2, "w">>, <<5, "m">>, <<45, "m">>,
                 <<36, "h">>, <<3200, "d">>}}
  \cup {Window("pastBefore", 45, "m", 15, "m"), Window("pastBefore", 1, "w", 1, "w"),
        Window("between", 86400, "", 172800, "")}

Text(neg, terms) == [negative |-> neg, terms |-> terms]
Part(n, u, f) == [num |-> n, unit |-> u, part |-> f]
MCTexts ==
  {Text(TRUE, <<Part(1, "h", 0)>>), Text(FALSE, <<Part(1, "d", Day \div 2), Part(30, "m", 0)>>),
   Text(FALSE, << >>), Text(FALSE, <<Part(3106, "d", Day \div 2), Part(1, "d", 0)>>),
   Text(FALSE, <<Part(3107, "d", 0)>>),
   Text(FALSE, <<Part(3106, "d", Day - 1)>>), Text(FALSE, <<Part(30, "s", 1)>>),
   Text(TRUE, <<Part(0, "s", 0)>>)}

Begins == -Minute
MCTick == 9 * Hour + 1
MCUntil == 115 * Day

MCLags == {0, 10 * Second}
MCResolutions == {Text(FALSE, <<Part(30, "m", 0)>>), Text(FALSE, <<Part(3107, "d", 0)>>)}

FilterTerm(key, values) == [key |-> key, values |-> values]
MCTerms ==
  {FilterTerm("cluster", <<"c1", "c2">>), FilterTerm("controllerName", <<"rs">>),
   FilterTerm("namespace", <<"n1", "n2">>), FilterTerm("namespace", <<"n3">>),
   FilterTerm("controllerKind", <<"deployment", "job">>), FilterTerm("controllerKind", <<"cronjob">>),
   FilterTerm("pod", <<"p1">>), FilterTerm("pod", <<"p1", "a!b">>),
   FilterTerm("label", <<"nginx">>), FilterTerm("label", <<"nginx", "web">>),
   FilterTerm("prefixedLabel", <<"x">>), FilterTerm("node", <<"n">>)}
MCFilters == {<< >>} \cup {<<t>> : t \in MCTerms} \cup {<<t, u>> : t, u \in MCTerms}
MCIllegal == {"a!b", Garbled}
=============================================================================
