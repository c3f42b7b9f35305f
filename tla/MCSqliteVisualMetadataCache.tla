---------------------- MODULE MCSqliteVisualMetadataCache ----------------------
EXTENDS SqliteVisualMetadataCache

CONSTANTS s1, s2, a, b

MCScan == {s1, s2}
MCLocator == {a, b}

\* The versions differ in their time only: an edit that keeps the size.
MCPrintOf == <<[size |-> 1, mtime |-> 1], [size |-> 1, mtime |-> 2]>>
MCVersion == 1 .. 2

================================================================================
