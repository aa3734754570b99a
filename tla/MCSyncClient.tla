---------------------------- MODULE MCSyncClient ----------------------------
EXTENDS SyncClient, TLC

CONSTANTS u, v, t,    \* users
          m, n, x, s  \* their inboxes m, n and s, and another mailbox of v

OwnerOf == (m :> u) @@ (n :> v) @@ (x :> v) @@ (s :> t)
InboxOf == (u :> m) @@ (v :> n) @@ (t :> s)

\* Lines about the inbox of u and its quota, about x, about the metadata of u, about
\* the annotations of the server and about the end of t; and what they are promoted to
\* and deferred as.
Items ==
  {mailbox(m, u), mailbox(x, u), mailbox(x, v), entry("UNMAILBOX", x),
   entry("SEEN", u), entry("SUB", u), entry("META", u),
   entry("USER", u), entry("USER", v), entry("UNUSER", t),
   entry("QUOTA", m), nameless(m), entry("USER", NoUser),
   entry("ANNOTATION", NoUser)}
=============================================================================
