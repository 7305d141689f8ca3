-------------------------- MODULE MCContentDelivery --------------------------
EXTENDS ContentDelivery, TLC

CONSTANTS c1, d1

MCOnePeer == d1 :> c1

MCAnyPolicy == [allow_preview : BOOLEAN, allow_download : BOOLEAN]

\* Of a file of up to two bytes: its beginning, its end, all of it, nothing
\* of it, an interval that ends after it, one that ends before it starts, and
\* what is refused for its form.
MCRanges ==
    [kind : {"none", "other"}]
    \cup [kind : {"from"}, first : {1, 2}]
    \cup {[kind |-> "span", first |-> r[1], last |-> r[2]] :
             r \in {<<0, 0>>, <<0, 2>>, <<1, 1>>, <<2, 1>>}}
    \cup [kind : {"suffix"}, count : {0, 1, 3}]
=============================================================================
