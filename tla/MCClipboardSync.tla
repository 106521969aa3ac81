--------------------------- MODULE MCClipboardSync ---------------------------
(* Small instances of ClipboardSync: two clients, and users who copy only    *)
(* where they are, or whose programs also copy in the background.            *)
EXTENDS ClipboardSync, TLC

CONSTANTS c1, c2

Symmetric == Permutations({c1, c2})
User(background, hasty, oversize) ==
  [background |-> background, hasty |-> hasty, oversize |-> oversize]
AtTheScreen  == {User(FALSE, FALSE, {}), User(FALSE, FALSE, {1}), User(FALSE, TRUE, {}), User(FALSE, TRUE, {1})}
JustQuick    == {User(FALSE, TRUE, {})}
InBackground == {User(TRUE, TRUE, {})}
=============================================================================
