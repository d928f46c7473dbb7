------------------------------ MODULE MCServices ------------------------------
(* Small instances of Services. *)
EXTENDS Services, TLC

\* infra/secrets/.env.example, as far as it matters, with a limit of one request.
EnvFile ==
  "USER_SERVICE_PORT" :> <<3001>> @@ "USER_SERVICE_URL" :> <<3001>> @@
  "USER_SERVICE_GRPC_PORT" :> <<50051>> @@ "USER_SERVICE_GRPC_URL" :> <<50051>> @@
  "HOTEL_SERVICE_PORT" :> <<8000>> @@ "HOTEL_SERVICE_URL" :> <<8000>> @@
  "BOOKING_SERVICE_PORT" :> <<8001>> @@ "BOOKING_SERVICE_URL" :> <<8001>> @@
  "REDIS_HOST" :> <<"compose">> @@ "RABBITMQ_HOST" :> <<"compose">> @@
  "POSTGRES_HOST" :> <<"compose">> @@ "S3_ENDPOINT" :> <<"compose">> @@
  "JWT_PRIVATE_KEY_PATH" :> <<"dev">> @@ "THROTTLE_LIMIT" :> <<1>> @@
  "OTEL_EXPORTER_OTLP_ENDPOINT" :> <<"collector">>

\* What docker-compose.yml sets beside its env_file.
Container ==
  Gateway :> ("PORT" :> <<3000>> @@ "JWT_PRIVATE_KEY_PATH" :> <<>> @@ EnvFile) @@
  "user-service" :> ("PORT" :> <<3001>> @@ EnvFile) @@
  "hotel-service" :> EnvFile

Compose == [given |-> Container, file |-> <<>>, at |-> <<"compose">>, keyFile |-> TRUE]

\* In compose without a key, and another port for booking-service than the URL says.
Moved ==
  [ given |-> Gateway :> Container[Gateway] @@ "user-service" :> Container["user-service"] @@
              "booking-service" :> ("BOOKING_SERVICE_PORT" :> <<9000>> @@
                                    "OTEL_SDK_DISABLED" :> <<"1">> @@ EnvFile),
    file |-> <<>>, at |-> <<"compose">>, keyFile |-> FALSE ]

\* Nest on the host, with a .env of which little is left.
OnHost == "OTEL_SDK_DISABLED" :> <<"1">> @@ "OTEL_EXPORTER_OTLP_ENDPOINT" :> <<"collector">>

Host ==
  [ given |-> [p \in {Gateway, "media-service", "notification-service"} |-> OnHost],
    file |-> "THROTTLE_LIMIT" :> <<0>> @@ "S3_ENDPOINT" :> <<>>,
    at |-> <<"localhost">>, keyFile |-> FALSE ]

SomeEnvironments == [compose |-> Compose, moved |-> Moved, host |-> Host]
SomeStores == {"redis", "rabbitmq", "postgres", "s3"}

=============================================================================
