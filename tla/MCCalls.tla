------------------------------- MODULE MCCalls -------------------------------
EXTENDS Calls

Searches ==
    [fn : {"search"}, text : BoundedSeq({97, 98}, 6) \union BoundedSeq({97, 98, NUL}, 3),
     pattern : BoundedSeq({97, 98}, 4)]
CaseSearches ==
    [fn : {"casesearch"}, text : BoundedSeq({97, 65, 98}, 4), pattern : BoundedSeq({97, 65, 98}, 3)]
Splits == [fn : {"split"}, text : BoundedSeq({44, 97, NUL}, 5), delimiter : {44}]
Escapes == [fn : {"escape"}, text : BoundedSeq({97, 7, 10, Quote, Backslash, -23, NUL}, 3)]

Enclose(s) == Prefix \o s \o Suffix
Decodes ==
    UNION {{[fn |-> "decode", text |-> Enclose(s \o t), plain |-> <<c, d>>, parts |-> <<s, t>>] :
               s \in Encodings(c), t \in Encodings(d)} : c \in {97, Equals, -23}, d \in {97, Equals, 63}}
        \union [fn : {"decode"}, text : {Prefix \o s : s \in BoundedSeq({Equals, 63}, 4)},
                plain : {<<97>>}, parts : {<<>>}]

Messages ==
    UNION {[fn : {"message"}, word : {w}, received : 0 .. Len(clientMessage(w))] :
              w \in BoundedSeq({1, Colon, Colon + 1}, 2 * WordRoom + 1)}
Limits == UNION {[fn : {"limit"}, current : {c}, hard : c .. Highest + 5] : c \in 3 .. Highest + 5}
RoundUps == [fn : {"roundup"}, num : Unsigned]
Opens ==
    UNION {[fn : {f}, fails : BoundedSeq({"socket", "none"} \union {c.name : c \in ToSet(CallsOf[f])},
                                         IF Addresses(f) # {} THEN 2 ELSE 1) \ {<<>>}] :
              f \in DOMAIN CallsOf}

AllCalls ==
    Searches \union CaseSearches \union Splits \union Escapes \union Decodes
        \union Messages \union Limits \union RoundUps \union Opens

=============================================================================
