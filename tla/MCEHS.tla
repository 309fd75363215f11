------------------------------- MODULE MCEHS -------------------------------
EXTENDS EHS
CONSTANTS root, o1, o2

ThreeObjects == {root, o1, o2}

\* "/", "/b", "/b/", "/b/c", "/b/c/", "/c/", "/b/b/", "/x/"
MCUris == { <<"", "">>, <<"", "b">>, <<"", "b", "">>, <<"", "b", "c">>,
            <<"", "b", "c", "">>, <<"", "c", "">>, <<"", "b", "b", "">>,
            <<"", "x", "">> }
=============================================================================
