---------------------------- MODULE MCLinkClient ----------------------------
(* Links whose credential, name, query values or port spec take every form up
   to a bound, one at a time, and every short text in place of a link. *)
EXTENDS LinkClient

Special == {"a", " ", "%", "23", "25", "FF", "#", "@", "/", "?", ":", "&", "=", "+", "u"}

Texts(set, n) == UNION {[1 .. k -> set] : k \in 0 .. n}

Hy(text) == [scheme |-> "hysteria2", text |-> text]

Server == <<"h", ":", "1">>

Query3(type, password, sni) ==
    <<"?", "obfs", "=">> \o type \o <<"&", "obfs-password", "=">> \o password
        \o <<"&", "sni", "=">> \o sni

Auths == {Hy(t \o <<"@">> \o Server) : t \in Texts(Special, 2)}

NameLinks == {Hy(Server \o <<"#">> \o t) : t \in Texts(Special, 2)}

Queries ==
    {Hy(Server \o Query3(<<"salamander">>, t, <<"a">>)) : t \in Texts(Special, 2)}
        \cup {Hy(Server \o Query3(t, <<"a">>, t)) : t \in Texts(Special, 1)}
        \cup {Hy(Server \o Query3(<< >>, << >>, t)) : t \in Texts(Special, 2)}

Shorts == {Hy(t) : t \in Texts(Special \cup {"[", "]", "1"}, 3)}

Port == {<<p>> : p \in {"0", "1", "2", "3"}}

Ranges(set) == {p \o <<"-">> \o q : p, q \in set}

Odd == {<<"all">>, <<"*">>, << >>, <<"4">>, <<"-", "1">>, <<"1", "-", "2", "-", "3">>}

Specs ==
    LET parts == Port \cup Ranges(Port) \cup Odd
        some == Port \cup Ranges({<<"0">>, <<"1">>, <<"3">>}) \cup {<<"all">>, <<"-", "1">>}
        few == {<<"0">>, <<"2">>} \cup Ranges({<<"1">>, <<"3">>})
    IN  parts \cup {p \o <<",">> \o q : p, q \in some}
              \cup {p \o <<",">> \o q \o <<",">> \o r : p, q, r \in few}

Obfuscated == Query3(<<"salamander">>, <<"a", "a">>, << >>)

MCPasted ==
    Auths \cup NameLinks \cup Queries \cup Shorts
        \cup {[scheme |-> s, text |-> Server] : s \in {"hy2", "https"}}

MCGiven ==
    {Hy(<<"h", ":">> \o spec) : spec \in Specs}
        \cup {Hy(server \o Obfuscated) :
                server \in {Server, <<"h">>, <<"[", ":", "]", ":", "0", "-", "2">>}}
        \cup {Hy(Server \o Query3(<<type>>, <<"a">>, <<"s">>)) : type \in {"salamander", "gecko"}}

MCNames == {<< >>, <<" ", "%", "23">>, <<"#", "a", " ">>}

MCDefaultSpec == <<"2">>

MCIntervals ==
    {[min |-> p[1], max |-> p[2]] : p \in {<<0, 0>>, <<0, 2>>, <<1, 3>>, <<2, 3>>, <<3, 2>>}}
=============================================================================
