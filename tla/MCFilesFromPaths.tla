-------------------------- MODULE MCFilesFromPaths --------------------------
EXTENDS FilesFromPaths

\* A directory of its own for each request, and an image that was sent under
\* a hidden name.
MCRoots == {<<"", "uploads", "content">>, <<"", "uploads", ".png">>}

Depth1 == {<<x>> : x \in {"a", "b", ".h"}}
Depth2 == {<<x, y>> : x \in {"a", "b"}, y \in {"a", "b"}} \cup {<<".h", "a">>, <<"a", ".h">>}
Depth3 == {<<"a", "b", x>> : x \in {"a", "b"}} \cup {<<"b", "b", "a">>}

MCBelow == {<<>>} \cup Depth1 \cup Depth2 \cup Depth3

MCParts == {"", "uploads", "content", "a", "b", ".h", ".png"}

MCIsHidden(x) == x \in {".h", ".png"}
=============================================================================
