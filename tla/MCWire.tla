------------------------------- MODULE MCWire -------------------------------
EXTENDS Wire

\* Two pages, with and without content, texts with and without a NUL, an empty
\* opaque and one whose length takes two bytes.
MCNodes == {Start(<<0, 5>>, TRUE), Start(<<0, 6>>, FALSE), Start(<<1, 5>>, TRUE), End,
            Text(<<>>), Text(<<65, 0, 66>>), Opaque(<<>>), Opaque([i \in 1..130 |-> i % 3])}
=============================================================================
