---------------------------- MODULE MCXmlDocument ----------------------------
(* Instances of XmlDocument: documents of a few nodes, well formed and not,   *)
(* and mappings whose keys hold the marks that need encoding.                 *)
EXTENDS XmlDocument

MCNodes == 1..26

Tag(name) == <<"<", name, ">">>
EndOf(name) == <<"<", "/", name, ">">>
Header == <<"<", "?", "xml", " ", "version", "=", "\"", "1", ".", "0", "\"", " ">>
Declare(encodingValue) == Header \o <<"encoding", "=", "\"">> \o encodingValue \o <<"\"", "?", ">", "\n">>
Comment == <<"<", "!", "-", "-", " ", "old", "-", "-", ">">>
CData == <<"<", "!", "[", "CDATA", "[", "a", "<", "b", "]", "]", ">">>
DocType == <<"<", "!", "DOCTYPE", " ", "top", ">">>

\* Texts of an element: blank, condensed, with every kind of reference.
Texts == {
    <<" ", "\n">>, <<"a", " ", "\n", " ", "b", " ">>,
    <<"&", "amp", ";", "&", "lt", ";", "&", "quot", ";">>,
    <<"&", "a", "&", ";">>,
    <<"&", "#", "x", "41", ";", "&", "#", "65", ";">>,
    <<"&", "#", "x", "n", ";">>, <<"&", "#", "x", "41">>, <<"&", "#", ";">> }

\* Attributes, among them unquoted, repeated and broken ones.
Attributes == {
    <<"n", "=", "\"", "a", "&", "lt", ";", "\"">>,
    <<"n", " ", "=", " ", "'", "a", "\"", " ", " ", "b", "'">>,
    <<"n", "=", "a", " ", "m", "=", "\"", "&", "apos", ";", "&", "quot", ";", "\"">>,
    <<"n", "=", "a", " ", "n", "=", "b">>,
    <<"n", "=", "a", "\"">>, <<"n", "a">>, <<"n", "=", "\"", "a">>, <<"=", "a">> }

OldHash == Tag("hash_mapping") \o <<"<", "hash", " ", "value", "=", "0", "/", ">">> \o EndOf("hash_mapping")
OldKey == <<"<", "key_mapping", "/", ">">>
Root(inner) == Tag("top") \o inner \o EndOf("top") \o <<"\n">>

MCFiles ==
    {Root(Tag("a") \o t \o EndOf("a") \o Comment) : t \in Texts}
      \union {Root(<<"<", "a", " ">> \o a \o <<"/", ">">> \o OldKey) : a \in Attributes}
      \union {
        Declare(<<>>) \o Comment \o Root(OldHash \o CData \o DocType \o OldKey),
        <<BOM>> \o Declare(<<"UTF", "-", "8">>) \o DocType \o Root(OldKey \o <<"b", "\n">> \o OldHash),
        Declare(<<"gb">>) \o Root(OldKey \o OldKey \o OldHash) \o Comment,
        Root(Tag("a") \o OldHash \o EndOf("a")),
        Root(Tag("a") \o OldKey \o <<"/", ">">>),
        Root(Tag("a") \o <<"b">> \o Tag("c")),
        Tag("top") \o Tag("a") \o OldHash \o EndOf("b") \o EndOf("top"),
        Tag("top") \o Comment \o <<"<", "!", "-", "-", "a">>,
        Tag("top") \o <<"<", "a">>, Tag("top") \o <<"a">>,
        Root(OldKey) \o <<"a">>, Root(<<"<">>),
        Root(Tag("a") \o EndOf("ab")), <<"\n">>, <<BOM, "a">> }

Slots == << [of |-> <<"0">>, group |-> <<"g">>], [of |-> <<"1">>, group |-> <<"h">>] >>
Keys == {
    <<"k">>, <<"a", "&", "b">>, <<"\"">>, <<"'", "\"", ">">>, <<"<", "/", "key", ">">>,
    <<"&", "amp", ";">>, <<"&", "#", "65", ";">>, <<"&", "#", "x", "41", ";">>, <<"\n", " ", " ">>,
    <<"-", "-", ">">>, <<>> }

MCMappings ==
    { [slots |-> Slots, keys |-> <<>>] } \union
    { [slots |-> <<Slots[1]>>, keys |-> <<[of |-> k, group |-> <<"g", "&", "h">>]>>] : k \in Keys }
==============================================================================
