--------------------------- MODULE MCBlockingCall ---------------------------
(***************************************************************************)
(* BlockingCall with one call of each kind the binding makes: opening, run *)
(* by run_blocking with a discard (Pool.open_stream, Pool.connect); put,   *)
(* run by run_blocking without a handle (Pool.put_record, Pool.call and so *)
(* on); and serve, run by run_native and returning a handle (Pool.serve,   *)
(* Pool.subscribe).                                                        *)
(***************************************************************************)
EXTENDS PoolCall
CONSTANTS opening, put, serve
=============================================================================
