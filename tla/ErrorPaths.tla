----------------------------- MODULE ErrorPaths -----------------------------
(***************************************************************************)
(* How an error of user-service reaches a client of the gateway: its name  *)
(* becomes a gRPC status, and the gateway's client turns the status into   *)
(* an HTTP one.                                                            *)
(***************************************************************************)
EXTENDS Naturals

(* toGrpcStatusCode, by the names of domain/errors.ts; any other error is INTERNAL. *)
GrpcStatusCode(error) ==
  CASE error = "UserAlreadyExistsError" -> "ALREADY_EXISTS"
    [] error \in {"InvalidCredentialsError", "InvalidRefreshTokenError"} -> "UNAUTHENTICATED"
    [] error = "UserNotFoundError" -> "NOT_FOUND"
    [] OTHER -> "INTERNAL"

(* Variant: what has no HTTP status of its own is the gateway's own failure. *)
HttpOfGrpcInternal(code) ==
  CASE code = "ALREADY_EXISTS" -> 409
    [] code = "UNAUTHENTICATED" -> 401
    [] code = "NOT_FOUND" -> 404
    [] code = "INVALID_ARGUMENT" -> 400
    [] OTHER -> 500

(* mapUserServiceGrpcError. UNAVAILABLE is what grpc-js says of a lost connection. *)
HttpOfGrpc(code) ==
  CASE code = "ALREADY_EXISTS" -> 409
    [] code = "UNAUTHENTICATED" -> 401
    [] code = "NOT_FOUND" -> 404
    [] code = "INVALID_ARGUMENT" -> 400
    [] OTHER -> 502

(* The status a client of the gateway sees. *)
HttpStatus(error) == HttpOfGrpc(GrpcStatusCode(error))

=============================================================================
