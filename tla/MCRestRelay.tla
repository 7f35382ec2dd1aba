---------------------------- MODULE MCRestRelay ----------------------------
(* RestRelay for TLC: one caller with two requests (1, then 2) and another    *)
(* with one (3).  Every kind of request alone and beside one that occupies    *)
(* the KAM-XL, writes to the same parameter two and three at a time, and      *)
(* requests with and without their key under each command line.               *)
EXTENDS RestRelay

MCSlots == 1..3
MCClient == [q \in MCSlots |-> IF q = 3 THEN "b" ELSE "a"]

Param(type, writable, choices) == [type |-> type, writable |-> writable, choices |-> choices]
MCCommands ==
  [ DIGIPEAT |-> Param("choice", TRUE, {"ON", "UIONLY", "OFF"}),
    MCON |-> Param("multiport_bool", TRUE, {}),
    FULLDUP |-> Param("multiport_choice", TRUE, {"ON", "OFF", "LOOPBACK"}),
    HBAUD |-> Param("multiport_int", TRUE, {}),
    MYCALL |-> Param("multiport_string", TRUE, {}),
    PORT |-> Param("int", TRUE, {}),
    VERSION |-> Param("string", FALSE, {}) ]
MCUpperCase == [on |-> "ON", off |-> "OFF", loopback |-> "LOOPBACK", n0call |-> "N0CALL",
                True |-> "TRUE", False |-> "FALSE"]
MCNumeral == [n \in {0, 1, 300, 1200} |->
                CASE n = 0 -> "0" [] n = 1 -> "1" [] n = 300 -> "300" [] OTHER -> "1200"]

MCFactory ==
  [ DIGIPEAT |-> <<"OFF">>, MCON |-> <<"OFF", "OFF">>, FULLDUP |-> <<"OFF", "OFF">>,
    HBAUD |-> <<"1200", "300">>, MYCALL |-> <<"NOCALL">>, PORT |-> <<"1">>,
    VERSION |-> <<"KAM-XL">>, HEARD |-> <<"">> ]
MCTolerated ==
  LET OnOffs == {"ON", "OFF"}  Rates == {"0", "300", "1200"}
  IN  [ DIGIPEAT |-> {<<w>> : w \in {"ON", "UIONLY", "OFF"}}, MCON |-> OnOffs \X OnOffs,
        FULLDUP |-> (OnOffs \cup {"LOOPBACK"}) \X (OnOffs \cup {"LOOPBACK"}),
        HBAUD |-> Rates \X Rates, MYCALL |-> {<<"N0CALL", "N0CALL">>, <<"N0CALL">>},
        PORT |-> {<<"1">>, <<"0">>}, VERSION |-> {}, HEARD |-> {<<"OFF">>} ]

MCStrays == {<<"OFF">>, <<"ON", "OFF">>}

-----------------------------------------------------------------------------
Short == [t |-> 5, cm |-> 5, c |-> 5, r |-> 5]
Ask(m, p) == [method |-> m, path |-> p, key |-> "k", body |-> "ok", command |-> "",
              value |-> Nothing, text |-> <<>>, times |-> Short, named |-> TRUE]
Get(p) == Ask("GET", p)
Post(p) == Ask("POST", p)
Read(c) == [Get("/params/C") EXCEPT !.command = c]
Put(c, x) == [Ask("PUT", "/params/C") EXCEPT !.command = c, !.value = x]
Raw(c, text) == [Ask("PUT", "/params/C/raw") EXCEPT !.command = c, !.text = text]
Exec(c, text) == [Post("/terminal/exec") EXCEPT !.command = c, !.text = text]
Unnamed(r) == [r EXCEPT !.named = FALSE]
Patient(r) == [r EXCEPT !.times = [Short EXCEPT !.t = 10, !.cm = 10]]

Puts ==
  { Put("DIGIPEAT", Str("on")), Put("DIGIPEAT", Str("300")), Put("MCON", Pair(Bool(TRUE), Bool(FALSE))),
    Put("MCON", Bool(TRUE)), Put("FULLDUP", Pair(Str("loopback"), Str("OFF"))),
    Put("FULLDUP", Pair(Str("loopback"), Str("1"))), Put("HBAUD", Pair(Num(300), Num(1200))),
    Put("HBAUD", Pair(Num(0), Bool(TRUE))), Put("MYCALL", Pair(Str("n0call"), Str("N0CALL"))),
    Put("MYCALL", Pair(Num(1), Str("N0CALL"))), Put("PORT", Num(0)), Put("PORT", Bool(TRUE)),
    Put("PORT", Str("0")), Put("VERSION", Str("on")), Put("HEARD", Str("OFF")) }

Locals ==
  { Get("/favicon.ico"), Get("/nowhere"), Post("/ping"), Get("/map"),
    [Post("/connect") EXCEPT !.body = "missing"], [Put("PORT", Num(0)) EXCEPT !.body = "garbled"] }

Relayed ==
  { Get("/ping"), Get("/status"), Get("/configuration"), Read("MYCALL"), Read("PORT"), Read("HBAUD"),
    Raw("MYCALL", <<"n0call">>), Raw("MYCALL", <<"300">>), Exec("", <<>>), Exec("MCON", <<"on", "on">>),
    Patient(Post("/connect")), Patient(Post("/disconnect")), Post("/connected/send"),
    Patient(Get("/connected/read")), Get("/pbbs/messages"), Unnamed(Get("/pbbs/messages/N")),
    Get("/stations"), Post("/winlink/check"), Unnamed(Post("/winlink/send")),
    Get("/winlink/account/S"), Get("/winlink/gateways") }

IsSession(r) == r.path \in PBBSPaths \cup WinlinkPaths
On == Exec("DIGIPEAT", <<"on">>)
Off == Exec("DIGIPEAT", <<"off">>)
Typed1 == Put("DIGIPEAT", Str("on"))
Typed2 == Put("MCON", Pair(Bool(TRUE), Bool(FALSE)))
Slow == [Get("/connected/read") EXCEPT !.times = [Short EXCEPT !.t = 15]]

Asks(A, B, C) == {<<a, b, c>> : a \in A, b \in B, c \in C}
Launch(noAuth, host, key) == [noAuth |-> noAuth, host |-> host, key |-> key]
Guarded == Launch(FALSE, "lan", "k")
Under(l, asked) == {[launch |-> l, asks |-> a] : a \in asked}

MCScenarios ==
  Under(Guarded,
    Asks(Relayed \cup Puts \cup Locals, {NoRequest}, {NoRequest})
    \cup Asks({Typed1, Typed2}, {Read("MYCALL"), Read("HBAUD")}, {NoRequest})
    \cup Asks({Raw("MYCALL", <<"n0call">>), Patient(Post("/connect")), Get("/winlink/gateways")},
              {NoRequest}, {Get("/configuration")})
    \cup Asks({r \in Relayed : IsSession(r) /\ r.named}, {NoRequest}, {Get("/ping")})
    \cup Asks({Typed1}, {NoRequest}, {Off})
    \cup Asks({Typed2}, {NoRequest}, {Raw("MCON", <<"ON">>)})
    \cup Asks({On}, {Off}, {Slow}))
  \cup UNION { Under(Launch(no, host, key),
                 {<<[r EXCEPT !.key = shown], NoRequest, NoRequest>> :
                    r \in Locals \cup {Get("/ping"), Read("PORT")}, shown \in {"", "k", "token"}})
               : no \in BOOLEAN, host \in {"lan", "localhost"}, key \in {"", "k"} }
=============================================================================
