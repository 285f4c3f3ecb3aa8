---------------------------- MODULE MCConditions ----------------------------
(***************************************************************************)
(* Conditions for TLC: a table of strings, users that have an attribute at *)
(* the top level, in custom, in private, in lower case or nowhere, and     *)
(* targets of every type.  A day has ten seconds.                          *)
(***************************************************************************)
EXTENDS Conditions

\* A string without upper case that is no number and no time.
Plain(s, starts, ends, subs) ==
    [lower |-> s, starts |-> starts, ends |-> ends, subs |-> subs, number |-> None, int |-> None,
     version |-> <<None>>, rfc3339 |-> None]

Alone(s) == Plain(s, {"", s}, {"", s}, {"", s})

Digits(s, n) == [Alone(s) EXCEPT !.number = n, !.int = n, !.version = <<n>>]

MCText ==
    [s \in {"", "1", "10", "35", "35000", "0", "1.0", "1.2", "2-b", "-x", "a", "A", "aB", "ab", "b",
            "rfc", "[list]", "u1", "us", "ff"} |->
        CASE s = ""      -> [Plain("", {""}, {""}, {""}) EXCEPT !.version = <<>>]
          [] s = "1"     -> Digits(s, 1)
          [] s = "0"     -> Digits(s, 0)
          [] s = "35"    -> Digits(s, 35)
          [] s = "35000" -> [Digits(s, 35000) EXCEPT !.starts = @ \cup {"35"},
                                                     !.ends = @ \cup {"0"},
                                                     !.subs = @ \cup {"35", "0"}]
          [] s = "10"    -> [Digits(s, 10) EXCEPT !.starts = @ \cup {"1"}, !.ends = @ \cup {"0"},
                                                  !.subs = @ \cup {"1", "0"}]
          [] s = "1.0"   -> [Alone(s) EXCEPT !.starts = @ \cup {"1"}, !.ends = @ \cup {"0"},
                                             !.subs = @ \cup {"1", "0"}, !.number = 1,
                                             !.version = <<1, 0>>]
          [] s = "1.2"   -> [Alone(s) EXCEPT !.starts = @ \cup {"1"}, !.subs = @ \cup {"1"},
                                             !.version = <<1, 2>>]
          [] s = "2-b"   -> [Alone(s) EXCEPT !.ends = @ \cup {"b"}, !.subs = @ \cup {"b"},
                                             !.version = <<2>>]
          [] s = "-x"    -> [Alone(s) EXCEPT !.version = <<>>]
          [] s = "A"     -> [Alone(s) EXCEPT !.lower = "a"]
          [] s = "aB"    -> [Plain(s, {"", "a", s}, {"", s}, {"", "a", s}) EXCEPT !.lower = "ab"]
          [] s = "ab"    -> Plain(s, {"", "a", s}, {"", "b", s}, {"", "a", "b", s})
          [] s = "rfc"   -> [Alone(s) EXCEPT !.rfc3339 = [at |-> 35, zone |-> -4]]
          [] OTHER       -> Alone(s)]

MCShown == (0 :> "0" @@ 1 :> "1" @@ 10 :> "10" @@ 35 :> "35" @@ 35000 :> "35000")

MCCountry == [s \in DOMAIN MCText |-> IF s = "10" THEN "us" ELSE None]
MCBrowser == [s \in DOMAIN MCText |-> IF s = "b" THEN "ff" ELSE ""]

MCFields == {"userid", "ip", "useragent", "country", "browser_name", "tier", "Tier", "plan", "Plan"}

MCTopField ==
    [f \in MCFields |-> IF f \in {"userid", "ip", "useragent", "country"} THEN f ELSE None]

MCLower == [f \in MCFields |-> CASE f = "Tier" -> "tier" [] f = "Plan" -> "plan" [] OTHER -> f]

MCParams == [f \in MCFields |-> CASE f = "tier" -> "b" [] f = "plan" -> "1" [] OTHER -> None]

NoAttributes == [f \in MCFields |-> None]

Nobody ==
    [top |-> [f \in {"userid", "ip", "useragent", "country"} |-> ""], custom |-> NoAttributes,
     private |-> NoAttributes, env |-> NoAttributes, customIDs |-> NoAttributes, bucket |-> None]

Somebody ==
    [Nobody EXCEPT !.top = [userid |-> "u1", ip |-> "10", useragent |-> "b", country |-> ""],
                   !.bucket = 10, !.env["tier"] = "1.0", !.customIDs["plan"] = "aB"]

Attributes ==
    {Str("1.0"), Str("1.2"), Str("10"), Str("aB"), Str("2-b"), Str(""), Str("rfc"),
     Num("float64", 35000), Num("int64", 1), List(<<Str("a")>>), Nil}

MCUsers ==
    {Nobody, Somebody}
    \cup {[Somebody EXCEPT !.custom["plan"] = v] : v \in Attributes}
    \cup {[Nobody EXCEPT !.private["Plan"] = v, !.custom["country"] = Str("us"),
                         !.env["Tier"] = "a"] : v \in Attributes}

MCTargets ==
    {Nil, Num("float64", 1), Num("float64", 35), Num("float64", 35000), List(<<>>),
     List(<<Str("a"), Str("aB")>>), List(<<Nil, Str("A")>>), List(<<Num("float64", 1)>>),
     List(<<Str("b")>>)}
    \cup {Str(s) : s \in {"", "1", "1.0", "10", "a", "ab", "2-b", "-x", "rfc", "b"}}
=============================================================================
