----------------------------- MODULE MCHttpClient -----------------------------
(* Small instances of HttpClient for TLC. *)
EXTENDS HttpClient

CONSTANTS j1, j2, web, secure

Use(js, main, hosts, bodies, n, framings) ==
  [jobs |-> js, main |-> main, hosts |-> hosts, bodies |-> bodies, redirects |-> n,
   framings |-> framings]

Framings == {"sized", "chunked", "open"}

\* One job with redirects between a plain and a secure host; two jobs that call
\* the same host, both coroutines or not, with and without a body.
SmallUses == {
  Use({j1}, {}, {web}, {TRUE}, 1, {"chunked"}),
  Use({j1}, {j1}, {web}, BOOLEAN, 1, Framings),
  Use({j1, j2}, {}, {web}, {FALSE}, 0, Framings),
  Use({j1, j2}, {}, {secure}, {FALSE}, 0, {"sized"}),
  Use({j1, j2}, {j2}, {web}, {FALSE}, 0, Framings),
  Use({j1, j2}, {}, {web}, {TRUE}, 0, {"sized"}),
  Use({j1, j2}, {j2}, {secure}, {FALSE}, 0, Framings)}
=============================================================================
