---------------------------- MODULE MCSerialHost ----------------------------
(* Small instances of SerialHost.                                           *)
EXTENDS SerialHost

\* "fog" has room for any value, "heater" not for the long one.  The long name is
\* longer than a packet holds, the overlong one longer than the buffer.
MCLength ==
    [field \in {"fog", "heater", "fig", "long name", "overlong", "on", "long", "odd", "",
                "0", "10", "55", "bad", "stop", "STRING", "BINARY", "UINT32", "ECHO",
                "JOIN", "RESET", "PING", "LISTEN", "LIST_REGISTERS", "GET_REGISTER",
                "SET_REGISTER", "VALUE_BROADCAST"} |->
        CASE field = "long name" -> 56 [] field = "long" -> 52 [] field = "overlong" -> 63
          [] field = "heater" -> 6 [] field \in {"on", "10", "55"} -> 2 [] field = "0" -> 1
          [] field = "" -> 0 [] OTHER -> 3]

\* No other text of an even length is typed as a BINARY value.
MCHex == [field \in DOMAIN MCLength |-> IF field = "on" THEN "55" ELSE field]

MCAtol == [field \in DOMAIN MCLength |-> IF field \in {"10", "55"} THEN field ELSE "0"]

Set(name, fmt, value) == <<"SET_REGISTER", name, fmt, value>>
Get(name) == <<"GET_REGISTER", name, "STRING">>

On == Value("STRING", "on")

MCBroadcasts ==
    {Register("fog", On), Register("fog", Value("STRING", "long")),
     Register("heater", On), Register("fig", On)}

\* Commands that read REG_BUFFER and the mesh, well and badly formed.
Commands ==
    { << <<"JOIN">>, Set("fog", "STRING", "on"), Get("heater") >>,
      << <<"JOIN">>, Set("heater", "UINT32", "10"), Set("long name", "STRING", "on") >>,
      << <<"JOIN">>, Set("heater", "BINARY", "odd"), <<"VALUE_BROADCAST", "fog", "BINARY", "on">> >>,
      << <<"JOIN">>, Set("heater", "bad", "PING"), <<"ECHO">> >>,
      << <<"JOIN">>, Set("overlong", "STRING", "on"), <<"overlong", "RESET">>, <<"">> >>,
      << <<"LISTEN">>, <<"JOIN">>, <<"JOIN">>, <<"LIST_REGISTERS">> >> }

\* What fills the ring and empties it.
Listening ==
    { << <<"JOIN">>, <<"LISTEN">>, <<"RESET">>, <<"JOIN">>, <<"LISTEN">> >>,
      << <<"JOIN">>, <<"LISTEN">>, <<"LISTEN">>, <<"LISTEN">> >> }

MCScripts == Commands \cup Listening

\* Values that are not of the format.
Nonsense == { << <<"JOIN">>, Set("fog", fmt, "on") >> : fmt \in {"BINARY", "UINT32"} }

Lists == { << <<"JOIN">>, <<"LIST_REGISTERS">> >> }
=============================================================================
