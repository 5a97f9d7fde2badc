---------------------------- MODULE MCHttpServer ----------------------------
(* Who asks for what, for TLC: two clients, a socket of two units.         *)
EXTENDS HttpServer

CONSTANTS a, b

Get(file, size, close)  == [file |-> file, head |-> FALSE, size |-> size, body |-> 0, close |-> close]
HeadOf(size)            == [file |-> TRUE, head |-> TRUE, size |-> size, body |-> 0, close |-> FALSE]
Post(size, body, close) == [file |-> FALSE, head |-> FALSE, size |-> size, body |-> body, close |-> close]

Setup(sa, sb, eager, split, n) ==
    [script |-> (a :> sa @@ b :> sb), eager |-> eager, split |-> split, aborts |-> n]

TheSetups == {
    \* Handlers and files, kept alive and closed, longer than the socket holds.
    Setup(<<Get(FALSE, 1, FALSE), Get(TRUE, 4, FALSE), Post(3, 1, TRUE)>>,
          <<Get(TRUE, 5, TRUE), Get(FALSE, 0, FALSE)>>, {}, {}, 0),
    \* A HEAD, and a body that may come in pieces, beside one that waits.
    Setup(<<HeadOf(4), Post(1, 2, FALSE)>>,
          <<Get(FALSE, 1, FALSE), Get(TRUE, 3, FALSE)>>, {}, {}, 0),
    \* One that pipelines, and whose bodies hold the thread, beside one that waits;
    \* a HEAD with no body after it.
    Setup(<<Post(3, 2, FALSE), HeadOf(4), Get(TRUE, 3, TRUE)>>,
          <<Get(FALSE, 3, FALSE), Get(TRUE, 3, FALSE)>>, {b}, {}, 0),
    \* Clients that disappear in the middle of a file or of a handler's body.
    Setup(<<Get(TRUE, 4, TRUE), Get(FALSE, 1, FALSE)>>,
          <<Post(3, 1, FALSE)>>, {}, {}, 2),
    \* A header in two segments; an empty file.
    Setup(<<Post(1, 1, FALSE), Get(FALSE, 1, TRUE)>>,
          <<Get(TRUE, 0, FALSE)>>, {}, {a}, 0)}
=============================================================================
