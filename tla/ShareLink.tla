----------------------------- MODULE ShareLink -----------------------------
(* The hysteria2:// share link, crates/config: parse_uri and name_from_uri
   read one, to_uri_with_name writes one.

   A text is a sequence of symbols: a character that means something to a
   link, a word, or the digits of an escape ("23" after "%").  Escapes of
   several bytes are one symbol: "C3BC" stands for what "%C3%BC" escapes, and
   "FF", after "%" only, for bytes that are not UTF-8. *)
EXTENDS Sequences, SequencesExt, TLC

CONSTANT None

(* The escape of each character that any of the writers escapes. *)
Digits ==
    " " :> "20" @@ "#" :> "23" @@ "%" :> "25" @@ "&" :> "26" @@ "+" :> "2B"
        @@ "/" :> "2F" @@ ":" :> "3A" @@ "=" :> "3D" @@ "?" :> "3F"
        @@ "@" :> "40" @@ "u" :> "C3BC" @@ "?!" :> "EFBFBD"

Bad == "FF"             \* the digits of an invalid byte
BadByte == "xFF"        \* the byte itself
Replacement == "?!"     \* U+FFFD

Escapes == Range(Digits) \cup {Bad}

Unescaped(digits) ==
    IF digits = Bad THEN BadByte ELSE CHOOSE c \in DOMAIN Digits : Digits[c] = digits

-----------------------------------------------------------------------------

(* str::split, split_once and rsplit_once. *)
Split(s, d) ==
    FoldLeft(LAMBDA acc, c : IF c = d THEN Append(acc, << >>)
                             ELSE [acc EXCEPT ![Len(acc)] = Append(@, c)],
             << << >> >>, s)

Has(s, d) == d \in ToSet(s)

Before(s, d) == Split(s, d)[1]

After(s, d) == SubSeq(s, Len(Before(s, d)) + 2, Len(s))

AfterLast(s, d) == Last(Split(s, d))

BeforeLast(s, d) == SubSeq(s, 1, Len(s) - Len(AfterLast(s, d)) - 1)

(* str::trim. *)
Trim(s) ==
    LET solid == {i \in DOMAIN s : s[i] # " "}
    IN  IF solid = {} THEN << >> ELSE SubSeq(s, Min(solid), Max(solid))

(* percent_decode_str: "%" and two digits are a byte, any other "%" is itself. *)
IsEscape(s, i) == i < Len(s) /\ s[i] = "%" /\ s[i + 1] \in Escapes

Decode(s) ==
    FlattenSeq([i \in DOMAIN s |->
        IF IsEscape(s, i) THEN << >>
        ELSE IF i > 1 /\ IsEscape(s, i - 1) THEN <<Unescaped(s[i])>>
        ELSE <<s[i]>>])

PercentDecode(s) == IF Has(Decode(s), BadByte) THEN None ELSE Decode(s)

(* utf8_percent_encode: the characters of a set, and all that is not ASCII. *)
Encode(s, set) ==
    FlattenSeq([i \in DOMAIN s |->
        IF s[i] \in set THEN <<"%", Digits[s[i]]>> ELSE <<s[i]>>])

NonAscii == {"u", Replacement}

UserInfo == DOMAIN Digits

\* Mutant: the fragment set without the addition of "%".
FragmentBare == {" ", "#", "+"} \cup NonAscii

Fragment == {" ", "%", "#", "+"} \cup NonAscii

(* encode_userinfo: the first colon stays. *)
EncodeUserInfo(auth) ==
    IF Has(auth, ":")
    THEN Encode(Before(auth, ":"), UserInfo) \o <<":">> \o Encode(After(auth, ":"), UserInfo)
    ELSE Encode(auth, UserInfo)

(* form_urlencoded: a space is "+", and what is not UTF-8 is replaced. *)
FormEncode(s) == ReplaceAll(Encode(ReplaceAll(s, " ", "space"), UserInfo), "space", "+")

FormDecode(s) == ReplaceAll(Decode(ReplaceAll(s, "+", " ")), BadByte, Replacement)

(* parse_query and get: the value of the first pair with the key. *)
Param(query, key) ==
    LET pairs == SelectSeq(Split(query, "&"), LAMBDA p : FormDecode(Before(p, "=")) = key)
    IN  IF pairs = << >> THEN << >> ELSE FormDecode(After(pairs[1], "="))

-----------------------------------------------------------------------------

Schemes == {"hysteria2", "hy2"}

NoObfs == [type |-> << >>, password |-> << >>]

(* Userinfo is before the last "@" of the authority, which is before the first
   "/" and the query. *)
Authority(text) == Before(Before(Before(text, "#"), "?"), "/")

Query(text) == After(Before(text, "#"), "?")

Host(text) == AfterLast(Authority(text), "@")

Auth(text) ==
    IF Has(Authority(text), "@") THEN PercentDecode(BeforeLast(Authority(text), "@"))
    ELSE << >>

(* parse_uri. An obfuscation without a type is none, and a password without a
   type is ignored. *)
ParseUri(link) ==
    LET obfs == Param(Query(link.text), <<"obfs">>)
    IN  IF link.scheme \notin Schemes \/ Auth(link.text) = None \/ Host(link.text) = << >>
        THEN None
        ELSE [server   |-> Host(link.text),
              auth     |-> Auth(link.text),
              obfs     |-> IF obfs = << >> THEN NoObfs
                           ELSE [type     |-> obfs,
                                 password |-> Param(Query(link.text), <<"obfs-password">>)],
              sni      |-> Param(Query(link.text), <<"sni">>)]

(* name_from_uri. *)
NameFromUri(link) ==
    IF link.scheme \notin Schemes \/ After(link.text, "#") = << >> THEN None
    ELSE PercentDecode(After(link.text, "#"))

(* to_uri_with_name: the pairs in the order of their keys, and a fragment for a
   name that is not blank. *)
Pair(key, value) == <<key, "=">> \o FormEncode(value)

QueryOf(p) ==
    LET obfs == IF p.obfs = NoObfs THEN << >>
                ELSE <<Pair("obfs", p.obfs.type), Pair("obfs-password", p.obfs.password)>>
        sni == IF p.sni = << >> THEN << >> ELSE <<Pair("sni", p.sni)>>
    IN  FoldLeft(LAMBDA q, pair : IF q = << >> THEN pair ELSE q \o <<"&">> \o pair,
                 << >>, obfs \o sni)

ToUriWithName(p, name) ==
    LET userinfo == IF p.auth = << >> THEN << >> ELSE EncodeUserInfo(p.auth) \o <<"@">>
        query == IF QueryOf(p) = << >> THEN << >> ELSE <<"?">> \o QueryOf(p)
        fragment == IF Trim(name) = << >> THEN << >>
                    ELSE <<"#">> \o Encode(Trim(name), Fragment)
    IN  [scheme |-> "hysteria2",
         text   |-> userinfo \o p.server \o <<"/">> \o query \o fragment]

(* host_of of the store: the name of a profile that was given none. *)
HostOf(server) ==
    LET s == Trim(server)
    IN  IF s # << >> /\ s[1] = "[" /\ Has(s, "]") THEN Before(Tail(s), "]")
        ELSE IF Has(s, ":") /\ BeforeLast(s, ":") # << >> THEN BeforeLast(s, ":")
        ELSE s

(* Store::add and Store::rename. *)
DisplayName(name, server) ==
    IF name = None \/ Trim(name) = << >> THEN HostOf(server) ELSE Trim(name)
=============================================================================
