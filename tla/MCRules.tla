------------------------------ MODULE MCRules -------------------------------
(* The questions TLC asks Rules.                                            *)
EXTENDS Rules

\* Around every edge: below half a cent, half cents, where cents * bps leaves an
\* i32 of 12 bits (Half = 2048), where it is back above zero, where cents does.
Prices == {0, 4, 5, 10, 15, 25, 35, 490, 495, 680, 690, 1010, 1365, 1500, 3000,
           4100, 9995, 10000, 10005, 20475, 20480, 30000}

Rates == {0, 1, 3, 30, 59, 100}

Environments ==
  [missing : {{}} \cup {{v} : v \in Required},
   addressParses : BOOLEAN, urlParses : BOOLEAN, pgssl : {Unset, "require", "on"},
   ipWindow : {Unset, 0}, ipMax : {Unset, -1, 0, 5}, failMax : {Unset, 0, 5},
   cronSecret : {Unset, ""} \cup Secret, sessionSecret : {Unset, ""} \cup Secret]

Headers ==
  {NoHeader} \cup
  [scheme : {"Bearer ", "Basic ", "bare"}, token : {"", "guess"} \cup Secret]

\* Userinfo of up to three tokens, or none, before host and database, and a password
\* among the parameters or not.
Userinfo == SeqOf({"credential", "@", "/"}, 3)
Credentials == {<<>>} \cup {u \o <<"@">> : u \in Userinfo}
HostParts ==
  {<<"host">>, <<"host", "/", "db">>, <<"host", "credential">>,
   <<"host", "/", "db", "credential">>}
ConnectionStrings ==
  [scheme : BOOLEAN, rest : {p \o h : p \in Credentials, h \in HostParts}]

\* A cookie with an "=" in its value, an empty one, and one without a name.
Cookies ==
  {<<"name", "=", "credential">>, <<"name", "=", "credential", "=", "credential">>,
   <<"name", "=">>, <<"credential">>}
CookieHeaders == SeqOf(Cookies, 2)

\* At most one invoice and three payouts, no two alike.
UpTo(n, rows) == UNION {kSubset(k, rows) : k \in 0..n}
InvoiceTables == UpTo(1, [status : {"pending", "paid"}, age : 0..3])
PayoutTables == UpTo(3, [status : {"queued", "failed", "submitted"}, age : 0..3])
AlertAges == {-1, 0, 2}
=============================================================================
