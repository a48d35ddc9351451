---------------------------- MODULE MCManifests -----------------------------
(***************************************************************************)
(* Specs for Manifests that vary one part at a time.                       *)
(***************************************************************************)
EXTENDS Manifests

Upper == [c \in Lower \cup {"A"} \cup Digits \cup Marks \cup {"_"} |->
             IF c = "a" THEN "A" ELSE c]

Option1 == [value |-> "x", secret |-> NoText]
Option2 == [value |-> NoText, secret |-> "y"]

Plain == [database |-> TRUE, proxy |-> FALSE, login |-> Option1,
          options |-> <<>>, providers |-> <<>>, sized |-> FALSE,
          sizing |-> [logins |-> 0, clients |-> 0, refreshes |-> 0,
                      unlimited |-> FALSE],
          instances |-> 1, value |-> <<>>]

\* Options that replace a default, one that the job changes, one that it drops,
\* and one more; alone and in every order, with either source, both or none.
OptionNames == {"KC_PROXY_HEADERS", "KC_CACHE", "KC_CACHE_STACK", "EXTRA"}

OptionBuilds ==
    {[Plain EXCEPT !.options = o, !.database = d, !.proxy = p, !.login = l] :
        o \in SeqOf([name: OptionNames, value: Texts \cup {NoText},
                     secret: {"y", NoText}], 2),
        d \in BOOLEAN, p \in BOOLEAN, l \in {Option2}}
    \cup
    {[Plain EXCEPT !.options = o] :
        o \in SeqOf([name: OptionNames, value: Texts, secret: {NoText}], 3)}

\* Two providers with names of at most two characters.
ProviderBuilds ==
    {[Plain EXCEPT !.providers = <<[name |-> a, url |-> Option1],
                                   [name |-> b, url |-> Option2]>>] :
        a \in SeqOf(DOMAIN Upper, 2), b \in SeqOf(DOMAIN Upper, 2)}

SomeRates == {-1, 0, 1, 6, 15}

SizingBuilds ==
    {[Plain EXCEPT !.sized = TRUE, !.sizing = s, !.instances = i] :
        s \in Sizes, i \in 0..3}

ValueBuilds == {[Plain EXCEPT !.value = v] : v \in SeqOf(Symbols, 4)}

AllBuilds == OptionBuilds \cup ProviderBuilds \cup SizingBuilds \cup ValueBuilds
=============================================================================
