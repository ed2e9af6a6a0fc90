------------------------------ MODULE MCRsrcDb ------------------------------
EXTENDS RsrcDb

range(start, end, used) == [start |-> start, end |-> end, used |-> used]

any(length)             == [range |-> FALSE, start |-> 0, end |-> 0,
                            align |-> 1, length |-> length]
aligned(length, align)  == [any(length) EXCEPT !.align = align]
within(start, end, length, align) ==
    [range |-> TRUE, start |-> start, end |-> end, align |-> align, length |-> length]

TwoPids == {2, 3}

(* One region, and a hole above it that a driver may register. *)
LowSeed == <<entry(0, 5, FREE)>>
LowRanges == {<<range(6, 7, FALSE)>>, <<range(6, 7, TRUE)>>,
              <<range(0, 1, FALSE), range(6, 7, FALSE)>>}
LowRequests ==
    LET one == {any(0), any(3), aligned(1, 2), aligned(2, 4),
                within(3, 5, 1, 1), within(1, 6, 2, 2)}
    IN  {<<a>> : a \in one} \cup {<<a, b>> : a, b \in one}

(* The whole of the address space as one region. *)
WholeSeed == <<entry(0, 7, FREE)>>
TopRequests ==
    LET one == {any(1), within(7, 7, 1, 4), within(5, 7, 2, 4)}
    IN  {<<a>> : a \in one} \cup {<<a, b>> : a, b \in one}
NoRanges == {}
=============================================================================
