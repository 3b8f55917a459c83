# CUCU: models, checks and proofs

CUCU is a neighbourhood food market: sellers publish dishes, buyers order them, couriers carry
the orders. It is a Django monolith with six Flask services around it, PostgreSQL, Redis, Celery
and RabbitMQ. This directory holds TLA+ models of the parts where requests, threads, services and
failures interleave, or where a small computation is easy to get wrong, the TLC configurations that
check them on small instances, and TLAPS proofs of the properties that matter most for every instance.

Run from this directory: `tlc -workers 2 -config pedidos_stock.cfg MCPedidos` (each cfg says below
which module it belongs to) and `tlapm Pedidos_proofs.tla`.

## 1. The system

### How it runs

- The monolith: gunicorn with 4 workers of 4 threads each (`gthread`, `--timeout 30`).
  `ATOMIC_REQUESTS` is off and the isolation level is PostgreSQL's READ COMMITTED, so that each ORM
  statement commits on its own unless a handler opens `transaction.atomic()`. Only order creation does.
- payment and auth services: gunicorn, 1 worker of 4 threads.
- The worker of the notifications service: one process, one message at a time
  (`prefetch_count=1`), container with `restart: unless-stopped`.
- RabbitMQ: one durable queue, `payments.events`; no dead-letter exchange, no publisher confirms.

### Components

| Component | State | Operations | Talks to |
|---|---|---|---|
| market, orders (`market/domain`, `market/infrastructure`) | `Pedido`, `PedidoItem`, stock of `Publicacion` | create, accept, mark delivered, tip, rate | geo (before the transaction), notifications, ratings service, delivery (shared row) |
| market, catalogue (`market/`) | `Publicacion`, `Ubicacion`, the cached listing | create, edit, delete, list | Redis, orders (foreign keys, cascade) |
| delivery (`delivery/`) | `Asignacion`, `RepartidorPerfil` | take an order, location update, leave, finish, reject, list, availability, payout window | market's orders, notifications |
| notifications, monolith (`notifications/`) | `Notificacion`, push subscriptions | send, mark as read, Celery task | called last by the handlers of market and delivery |
| payments and transactions, monolith | `Pago`, `Transaccion` | register payment, ensure transaction | orders, Celery |
| payment service (`payment_microservice/`) | `payment_service.payments` | create payment, decide it, publish the decision | RabbitMQ |
| notifications service (`notifications_microservice/`) | `processed_events`, `notifications` | worker `on_message`; HTTP routes | RabbitMQ |
| ratings and support service | ratings, messages | create and list | called by market over HTTP |
| accounts (`accounts/`) | users, saved addresses | register, log in, edit, delete account, default address | every foreign key to a user |
| auth service (`auth_microservice/`) | sliding-window rate limiter, tokens | issue, verify, limit | monolith over HTTP |
| common (`common/`) | admin throttle in the cache | middleware, HTTP adapters | Redis |
| market service (`market_microservice/`) | a second catalogue without stock | single inserts and reads | none |
| geo (`geo/`, `geo_microservice/`) | in-process caches, backoff clocks | geocode, suggest, route | external providers |
| frontend, configuration | none | templates, assets, deployment | |

`PROJECT.json` lists them with their sources and whether they are modelled; its `hazards` list,
line by line, what in this code a test would hardly reach, and which property is aimed at it.

### What is hard, and what correctness means

- **Orders.** Two buyers want the last units; the seller edits the stock, the price or deletes the
  publication while an order is in flight; a cart of several publications takes several row locks in
  an order that the query leaves open, with the sellers' account rows among them, so two carts can
  deadlock; the check for an active order is a transaction away from the insert; acceptance and
  delivery are read-then-save without a lock; a request dies between the write and the notice.
  Correct: no unit sold twice or lost, totals that match what was sold, whole foreign keys, no order
  back from deletion, one active order per buyer, notices for every event, no thread stuck on a lock.
- **Delivery.** Two couriers race for an order; one courier's requests overlap; a late save writes
  an earlier stage over a later one; finishing the delivery and closing the order are two statements.
  Correct: only accepted orders are carried, the stages come in order, the courier who has an order
  keeps it, a finished delivery closes its order, the market is never surprised by what delivery does.
- **Payment events.** Store, decide, publish on one side and register, notify, acknowledge on the
  other are separate commits in separate systems, with redelivery between them. Correct: nobody is
  told twice, nobody is told something false, each notice that is lost is explained by a failure, and
  no message stays in the way of those behind it.
- **Ratings.** The rating is stored by another service over HTTP, the order marked, the seller's
  average recomputed from a list fetched over HTTP, the seller told: four commits in two services,
  with timeouts after which the other side may still act. Correct: no mark and no notice without a
  stored rating, no duplicate that a failure does not explain, figures that belong together.
- **Charges.** A request charges, stores the charge, opens the order's transaction and enqueues a
  notice, in four steps without a common commit; nothing refuses a second charge; the transaction is
  one-to-one with the order, so overlapping requests race for it; Celery retries the whole task.
  Correct: no charge without its transaction, no surplus notice that a retry does not explain, and a
  buyer who was charged is told.
- **Cached catalogue.** A reader may store rows that a writer has just invalidated, and some writes
  invalidate nothing. Correct: what the cache answers was true a bounded time ago.
- **Accounts.** An account is deleted after three queries found no open order or delivery; reset links
  are checked against a password that another request is changing; the default address is cleared and
  set by two statements. Correct: what goes with an account was not open when it was asked for, a
  link is spent by use, one default address except for requests that crossed.
- **Limiters.** The auth service reads the clock before it takes its lock; the admin throttle reads and
  writes its counter in two calls from several processes. Correct: a bound on what passes that any
  number of threads keeps, or an account of what passed beyond it.
- **Geocoding and routes.** Caches without locks in threaded processes; a backoff after HTTP 429 that
  requests under way have not seen; address variants that generalise what was typed; polylines decoded
  bit by bit. Correct: bounded caches, a quiet provider during the backoff, suggestions on the road
  that was typed, routes through the points the provider drew.
- **Push notices.** A loop over subscriptions that expire, move to another account or fail meanwhile.
  Correct: one browser's trouble costs no other browser its notice.
- **Couriers' weeks.** The pay week turns on Sunday at noon; a delivery may finish at that moment, or be
  finished twice (finding 2). Correct: each delivery is in the open week or a closed one, and in one only.
- **Places of publications.** A publication and its `Ubicacion` are created and deleted by separate
  statements, and a deletion can be repeated. Correct: the search near a place finds exactly what is
  there, and every row left to nobody is explained by a failure.

## 2. Modules

| Module | Models | Lines |
|---|---|---|
| `Pedidos` | orders and the catalogue rows they depend on | `market/domain/services.py`, `order_rules.py`, `builders.py`, `market/infrastructure/repositories_impl.py` |
| `Tienda` | abstract specification of the market | `order_rules.py`, `market/infrastructure/repositories_impl.py`, as one step each |
| `Entregas` | delivery, composed with the market (`EXTENDS Pedidos`) | `delivery/domain/services.py`, `rules.py`, `delivery/infrastructure/repositories_impl.py` |
| `CicloEntrega` | abstract specification of delivery | the states of `Asignacion` |
| `EventosPago` | payment service, queue, worker | `payment_service.py`, publisher, `worker.py`, repositories |
| `AvisoDePago` | abstract specification of the payment events | |
| `Calificaciones` | ratings, from `rate_order` to the seller's reputation | `market/domain/services.py`, `common/infrastructure/adapters.py`, support service |
| `Pagos` | charges of the monolith and their Celery task | `payments/domain/services.py`, `transactions/domain/builders.py`, `notifications/tasks.py` |
| `Catalogo` | the cached listing | `market/interfaces/api/views.py`, `market/infrastructure/cache.py`, `market/application/use_cases/` |
| `Publicaciones` | publications, their `Ubicacion` and the search of what is near | `market/domain/services.py`, `market/infrastructure/repositories_impl.py` |
| `Jornadas` | couriers' availability, offers, rejections, weekly summary | `delivery/domain/services.py`, `rules.py`, `delivery/infrastructure/repositories_impl.py` |
| `AvisosPush` | a notice pushed to every browser; subscriptions | `notifications/domain/services.py`, `notifications/infrastructure/`, `common/infrastructure/adapters.py` |
| `Cuentas` | registration, reset links, deletion of an account | `accounts/application/use_cases/`, `accounts/infrastructure/` |
| `Direcciones` | saved addresses and the default one | `accounts/interfaces/api/views.py` |
| `AuthServicio` | the sliding window and `register` | `auth_microservice/app/` |
| `LimiteAdmin` | the throttle of the admin login | `common/middleware.py` |
| `Geocodificacion` | Nominatim: variants, two caches, backoff | `geo_microservice/app/geocoding_service.py` |
| `DireccionesCo` | the variants of a Colombian address, as functions | `geo_microservice/app/geocoding_service.py` |
| `GeoGoogle` | Google's geocoder and two caches in the monolith | `geo/domain/services.py` |
| `Rutas` | providers of a route and the decoding of its line | `geo/infrastructure/routing.py`, `geo_microservice/app/routing_service.py` |
| `Reloj` | the clock and the threads of a process | |
| `MCPedidos`, `MCEntregas`, `MCEventosPago`, `MCCalificaciones`, `MCPlataforma` | constants for TLC; the last one runs the modules from `Pagos` on | |
| `Conteo` | lemmas that the proofs share: counting in finite sets, the least counterexample, folds of sets and of sequences | |
| `Pedidos_proofs`, `Entregas_proofs`, `EventosPago_proofs`, `Calificaciones_proofs` | theorems about the module they are named after | |
| `Catalogo_proofs` | theorems about what is sold and paid: `Catalogo`, `Publicaciones`, `Jornadas`, `Pagos` | |
| `Cuentas_proofs` | theorems about people and who gets in: `Cuentas`, `Direcciones`, `AuthServicio`, `LimiteAdmin`, `AvisosPush`; and about the composition `MCPlataforma` | |
| `Geo_proofs` | theorems about `Geocodificacion`, `DireccionesCo`, `GeoGoogle`, `Rutas` | |

The names follow the source, which is written in Spanish: *pedido* order, *publicación* dish for
sale, *vendedor* seller, *repartidor* courier, *hilo* thread, *aviso* notice, *cola* queue, *caída*
a request that dies. Definitions commented `Mutant:` are wrong on purpose; nothing uses them. Each is
a plausible bug (`PROJECT.json`, `mutants`) under which the property beside it must fail.

### Pedidos and Tienda

`publicacion` and `pedido` are the rows; an item is a positive entry of `cantidad`. `hilo[h]` is
what thread `h` has read and will write, so that any other step may fall between a handler's
statements. A request that its first check refuses changes nothing and is no step.

| Action | Code |
|---|---|
| `CreatePublicacion`, `UpdatePublicacion`, `DeletePublicacion` | catalogue handlers; absolute values in PATCH, `ON DELETE CASCADE` through main publication and items |
| `CreateOrderCheck` | `create_order` up to the transaction: the cart, the active order |
| `CreateOrderLock` | `SELECT ... FOR UPDATE` with `select_related("usuario")`: one row at a time, publication then its seller |
| `CreateOrderCommit`, `CreateOrderRollback` | validation, pricing, inserts, stock deduction and COMMIT, or `ValidationError` |
| `CreateOrderDeadlock` | PostgreSQL aborts one transaction of a waiting cycle |
| `AcceptOrderRead/Save`, `MarkOrderDeliveredRead/Save` | read and check, then `save(update_fields=...)` of whatever the row is by then |
| `MarkEntregado` | what delivery does to an order; in `Pedidos` the environment step `Reparto` |
| `Enviar` | `NotificacionService.enviar`, the last call of each handler; waits for a locked account row |
| `Caer` | the request dies at any point; an open transaction is rolled back |

The commit waits for the buyer's account row (deferred foreign key), which another order may hold.
Inserts and plain updates that PostgreSQL serialises take one step. `entregados`, `perdidos`,
`repuesto` and `vendidas` are history: they record, no guard reads them.

`EnCiclo` is the cycle of the wait-for graph that the deadlock detector looks for, `PuedeSeguir` the guards of
a thread's own steps written out, and `SinAtasco` says of the two that while a request is under way somebody
can go on or is the victim of a cycle.

`Tienda` is what buyer and seller may rely on, without threads, locks or snapshots: `Vender` sells an order at
one instant, at which every publication of the cart is on sale, has the units and allows that many; the units
leave the stock and the total is that of the prices on show. `Anunciar`, `Retirar` and `Atender` are what
sellers and couriers do in between. `ImplementaTienda` maps the tables to themselves: the handlers' many
statements come down to one such step each.

### Entregas and CicloEntrega

`asignacion` is keyed by its unique `pedido`; `hitos` is the set of stages whose timestamp column is
set. `aceptar_pedido` is three steps (active delivery, order and assignment read, insert against the
unique constraint), each stage is read, save, close, notify. `Mercado` is any step of `Pedidos`
except `Reparto`, with the cascade into `asignacion`; `CerrarPedido` does `MarkEntregado` itself.
That the composition refines `Pedidos` is therefore a property, `ImplementaPedidos`: each close is a
`Reparto` step, with its guard. `CicloEntrega` says what users expect (stages one by one, never back,
one order per courier), and `ImplementaCiclo` maps stage and courier of each row to it. A position is
only which of the two addresses it is near.

### EventosPago and AvisoDePago

`pago` are the payment rows, `hilo` what each thread of the service is processing, `cola` the ready
messages, `enMano` the unacknowledged one and `fase` the worker's place in `on_message`. A payment is
published once, so its id stands for the event's uuid; amounts matter only to the validation and to
`_simulate_processing`. Failures are `PerderTarea` (crash, broker error, dropped message),
`ErrorDeBase` (PostgreSQL fails before, or after, the commit), `Nack` (no requeue: the message is
gone) and `Reinicio` (redelivery in place). `AvisoDePago` is the promise: received, decided once, told
at most once and truthfully.

### Calificaciones

`calificaciones[v]` is support-service's table, per seller and in the order of commit; `hilo[h]` is the
place of a thread in `rate_order` with what it has read; the order's own life is the environment step
`Vida`. `RateOrder` checks ENTREGADO and `calificado`, `CreateRating` is the remote insert,
`RatingCreated` its answer, `MarkCalificado`, `ListRatings` (which answers `[]` when it fails),
`RefreshReputacion` and `Enviar` are the statements that follow. `RatingFails` is the
`ServiceUnavailableError` of `create_rating`: support-service may have stored the rating, may never do
so, or may do so later (`tardias`, `CreateRatingTarde`). `Caer` ends a request between two statements.
The average is kept in tenths, rounded as Python rounds.

### Pagos

`CrearPago` stores the charge that the gateway has decided, `MirarTransaccion` and `AbrirTransaccion` are the
`hasattr` and the `create` of `ensure_transaccion_for_pedido` (the loser of the race ends with
`IntegrityError`, its charge stored), `EncolarAviso` is `delay`, which may reach the broker or not.
`EmpezarTarea`, `GuardarAviso`, `EmpujarAviso` and `Reintentar` are the task, whose retry runs it from
the start. `BorrarOrden` is the cascade. The gateway's decision is a choice; `truncos` and `tropiezos`
record the requests that died and the failures.

### Catalogo, Publicaciones

The catalogue's rows are a version number, the number of commits that changed them, and `desde` the time of
each. `MirarCatalogo`, `LeerFilas` and `GuardarFilas` are the three calls of `get`; `ConfirmarCambio` and
`InvalidarCatalogo` the two of a write; `CambioSinAviso` and `MorirSinInvalidar` the writes that never
invalidate: the cascade of a deleted account, a process that dies between the two. `Demora` bounds how
long a reader takes between reading and storing. It is an assumption on the deployment: the 30 s of gunicorn end
a worker that hangs, not one slow request of a thread.

In `Publicaciones` an address is its place, in kilometres on a line, and the haversine its distance.
`CrearLugar` and `CrearPublicacion` are the two inserts of `create_publicacion`, `LeerParaBorrar`,
`BorrarPublicacion` and `BorrarSiHuerfana` the statements of `delete_publicacion`,
`CaerConElVendedor` the cascade, which knows nothing of `Ubicacion`.

### Jornadas

The clock counts half days of Bogotá from the midnight that begins a Sunday, because noon and midnight are
all that `current_payout_period` tells apart. `ComienzoDeSemana` and `ProximoPago` are that function,
`Resumen` the counting. A listing reads the rejections first and the orders later, a rejection checks
first and stores later, so that offers may be out of date in each combination. Of the stages in
`Entregas` only those that `resumen` tells apart are kept, with the same overlap of requests, so that a
delivery may be finished, taken back and finished again (`refechas`).

### AvisosPush

A subscription row is keyed by its unique endpoint. `ListarSuscripciones` reads the rows, `EnviarPush` and
`FallarPush` are one turn of the loop, `BorrarVencida` the deletion after 404 or 410; a browser
subscribes, moves to another account, leaves or expires at any moment. `debidos` are the notices that a
browser subscribed since before they were stored has not had yet.

### Cuentas, Direcciones

`BuscarBloqueo` is one query of `find_deletion_blocker` at a time, in the code's order, and `BorrarCuenta` the
delete with its cascade; orders and deliveries open and close in between (environment steps that `Pedidos` and
`Entregas` model in full). An order has a main publication and dishes, which may be other sellers'.
`ReabrirCompra` and `ReabrirEntrega` are the late writes that open an order or a delivery again, and
`adelantadas` the orders that became ENTREGADO while their delivery was under way. The fingerprint of a reset
link is the number of passwords the account has had. In `Direcciones` a PATCH that does not name the mark
writes back the one it read, as the serializer's `save` does.

### AuthServicio, LimiteAdmin

The limiter's list is that of one endpoint and address. `LeerReloj` is the `time.time()` before the
lock, `Limitar` what happens under it: the head of the list is pruned while it is old, so what is not in
order stays. `Retraso` bounds the wait for the lock. Names fold to lower case in the query and not in
the constraint. In `LimiteAdmin` reading and writing the counter are two steps; each write starts the
minute again.

### Geocodificacion, DireccionesCo, GeoGoogle, Rutas

A text is a record of what the regular expressions of the address functions look at (kind of road, letter, how
much of the house number is there and how it is written); `DireccionesCo` has those functions as operators on
such records. In `Geocodificacion` the look at the backoff and the call are two steps, and storing is testing
the size (`Guardar`), the loop that picks the oldest entry, the pop and the insert. The loop is a step of its
own where it starts and takes the size the dictionary has by then (`EmpezarRecorrido`), and a step for each
turn (`Recorrer`). Other threads change the dictionary before it and between two turns: when the size is
another at the next turn, or there are keys beyond those it started with, Python raises `RuntimeError` and the
request stores nothing (`RecorridoRoto`); a change that it does not notice, such as a pop and an insert, makes
it see entries that came meanwhile (`recorridos` says who is past which), or, if the table is rebuilt, miss
some (`NuevoLugar`); a loop that finds the dictionary empty evicts nothing (`TerminarRecorrido`). Looking up
an entry and popping it when it is old are one step there and two in `GeoGoogle`, where a full dictionary is
emptied. Which results come back is a choice among nothing, the road that was typed and something else.

`Rutas` encodes a line as the providers do, in groups of five bits with the sign in the lowest one, and
decodes it as the two decoders do, group by group; the legs are joined, the providers asked in turn. An answer
may have lost its end: its last text arrives up to some character, whichever (`Cortados`). Inside a point the
decoder raises and the next provider is asked; between two points its loop ends as usual and the route that is
returned stops there.

### Composition

`Entregas` extends `Pedidos`: they share the orders. The modules of `MCPlataforma` share no variable but
the clock, so a behaviour of it runs one of them, `parte`; where one of them needs the life of an order it has
environment steps of its own, named after the handlers that the other modules model in full.

## 3. Runs

| Run (cfg) | Module | Instance | Shows |
|---|---|---|---|
| `pedidos_stock` | `MCPedidos` | 2 threads, 1 dish, edited and deleted under 2 orders of up to 2 units, 1 dying request | `TypeOK`; `ConservacionStock`: supplied = left + sold under orders, edits, deletions; `AvisosCompletos`; `ImplementaTienda`: every order is sold at one instant, and none returns from deletion |
| `pedidos_filas` | `MCPedidos` | 2 threads, 2 dishes of 2 sellers edited and deleted, 2 prices, carts of both | `IntegridadReferencial`; `TotalCubreItems`: total = fee + items at the prices of the sale |
| `pedidos_serie` | `MCPedidos` | clients with one request at a time, 2 accounts that buy from each other, fairness | `UnActivoSinResurreccion`; `SinAtasco`: never is everybody waiting; `PeticionTermina`: no thread waits forever, row-lock cycles included |
| `pedidos_un_activo` | `MCPedidos` | two requests of one buyer overlap | finding 1 |
| `entregas` | `MCEntregas` | 1 order, 2 couriers with overlapping requests, 1 dying request | `AsignadoFueAceptado`, `HitosEnOrden`, `FinalizadoCierra`, `AvisosEntregaCompletos`, `ImplementaPedidos` |
| `entregas_ciclo` | `MCEntregas` | 2 orders at neighbouring doors, 2 couriers with one request at a time | `ImplementaCiclo` |
| `entregas_final` | `MCEntregas` | 1 order, 1 courier with overlapping requests | finding 2 |
| `eventos_pago` | `MCEventosPago` | 3 payments (both decisions), 2 threads, 2 failures, an amount and a method that are refused, fairness | `AvisoUnico`, `PerdidasContadas`, `ImplementaPromesa`, `PagoReposa` |
| `calificaciones` | `MCCalificaciones` | 2 orders of 2 buyers from one seller, 2 threads, 2 scores, 2 failures | `CalificadoGuardado`, `DuplicadosContados`, `ReputacionDeUnaLista` |
| `reputacion` | `MCCalificaciones` | 3 orders, overlapping requests, no failure | finding 3 |
| `plataforma` | `MCPlataforma` | the twelve components around the orders, one per behaviour, 2 threads each | `TiposPlataforma` and the properties of the next table |
| `baja_platos` | `MCPlataforma` | `Cuentas` alone: an order with dishes of two sellers | finding 4 |

What `plataforma` shows of each component:

| Module | Properties |
|---|---|
| `Geocodificacion` | `RetiradaRespetada`: after a 429 each thread calls Nominatim at most once more until the backoff ends; `CacheSinSobrantes`: an entry beyond the maximum is paid for by a store that overlapped; `SugerenciaEnSuVia`: no variant ends on a road that was not typed |
| `GeoGoogle` | `CacheGoogleAcotada`: at most one entry per thread beyond the maximum, forever |
| `Rutas` | `RutaFiel`: the line drawn is the one the provider encoded, with one point where two legs meet, or a beginning of it if the answer lost its end |
| `Pagos` | `CobroConTransaccion`, `AvisosDePago`: every charge has its transaction or a dead request; a surplus notice costs a retry, and without failures a buyer who was charged is told |
| `Catalogo` | `CatalogoFresco`: a cached answer was true at most the time to live and one slow read ago, even when nobody invalidates |
| `Direcciones` | `PredeterminadaUnica`: a second default address costs a pair of crossed requests |
| `Cuentas` | `BajaSinPedidosVivos`: a deletion takes open orders of its buyer or main seller and open deliveries of its courier only if they were opened after its query, and another's open delivery only with an order that was ENTREGADO early or opened late; `EnlaceAcotado`: the links made with one password change it once per thread at most |
| `AuthServicio` | `VentanaRespetada`: at most the limit in any window shortened by the wait for the lock; `TocayosAcotados`: names that differ in case only, one per thread at most |
| `LimiteAdmin` | `IntentosContados`: attempts beyond the limit cost a counter written over |
| `AvisosPush` | `AvisosPushCompletos`: a browser without its notice costs a failed push of its own, or a dead thread |
| `Jornadas` | `PagoDeUnaSemana`: a delivery is in the open week or a closed one, and counted in one only unless it was dated again; weeks close on Sunday at noon |
| `Publicaciones` | `AnunciosUbicados`: the search near a place finds exactly what is there, and a place left to nobody costs a failure |

Most of these say what a deviation must be *paid with* rather than that there is none, because the code
has none of the locks that would exclude it: what is checked is that one accident of a known kind never
costs more than one, and that without accidents nothing deviates.

**Bounds.** Ids of orders, publications and payments are finite and never reused: a behaviour stops when they
are used up (in `Calificaciones`, until every order is deleted), hence `CHECK_DEADLOCK FALSE` in every cfg;
that no thread is stuck before is `PeticionTermina` and `PagoReposa`. Two threads are what every race listed
needs: each pairs two requests, and a third adds no new pair of statements; two publications and two sellers
are enough for lock cycles through publications and through accounts; two units distinguish per-unit from
per-line arithmetic and let the second of two orders fail; two failures with three payments let one failure
hit each side of the queue while a payment passes unharmed. In `entregas` one order suffices because couriers
interact only over an order; `entregas_ciclo` has the two that the one-order-per-courier rule needs, and buyer
and seller live next door, so that every location update arrives. What the theorems below prove does not
depend on these bounds.

In `plataforma` two threads make every overlap that the code's unlocked sections allow; caches hold one entry
of three possible ones and live one tick, so that they fill, expire and are evicted within the three ticks of
`MaxReloj`; there is one order with three charges (the loser of the race, the winner and a later one), three
versions of the catalogue, up to four passwords of an account (two requests cannot use a link of one password
more than twice, and a mutant that can needs the fourth), two hits of a limit of two in a window of two, two
endpoints and two notices, the three half days around a Sunday noon, two publications and two places.
`Coordenadas` has the values on both sides of one and two groups of five bits, with each sign. The state
constraints keep the components from multiplying their own cases: `RelojCorto` (the clock goes beyond 2 only
where a property needs it), `UnUso` and `UnTexto` (one cache and one text besides the known place at a time,
as caches share nothing), `PocosSolapes` (one overlapped store, none after a 429), `UnaClave` (links are sent
to one account, and then without orders; one account is gone where an order was placed, and none was made
again where a courier has it), `UnContratiempo` (one push or thread fails, one notice is read), `JornadaCorta`
(offers are dealt with in the first half day).

**Symmetry** is used where a run checks safety only; the runs with liveness have none.

**Fairness.** `Pedidos!SpecJusta` assumes strong fairness of each thread's `Avance`: the operating
system keeps running threads, PostgreSQL's lock queues are first-come first-served, so a waiter whose
lock is freed over and over obtains it, and the deadlock detector aborts a cycle. Arrivals, catalogue
edits, couriers and crashes are not fair. `EventosPago!SpecJusta` assumes weak fairness of each service
thread and of the worker: threads run, and `restart: unless-stopped` brings the worker back.

## 4. Findings

1. `pedidos_un_activo` (`UnPedidoActivo`). `market/domain/services.py:314` refuses a second order with "Ya tienes un
   pedido activo", and `market/tests.py:86` tests it in sequence. The check (line 312) precedes the
   insert by a geocoding call and a transaction and nothing in the schema backs it: two overlapping
   requests of one buyer both pass and both commit. With clients that send one request at a time the
   rule holds except for an order that was delivered and then revived by a late acceptance
   (`UnActivoSinResurreccion`).
2. `entregas_final` (`FinalizadoEsFinal`). `CHANGELOG.md:33-35` describes a five-state machine that ends in
   FINALIZADO, and `delivery/tests.py:78` that no location update leaves it. The location update saves the
   stage it computed from a stale read (`delivery/infrastructure/repositories_impl.py:57`): it can write
   LLEGO_ENTREGA over FINALIZADO. The courier is then active again and may finish a second time. No stage gets
   its time before an earlier one has one (`HitosEnOrden`, which looks at which are set and not at the times),
   and with one request at a time the stage never goes back (`ImplementaCiclo`).

3. `reputacion` (`ReputacionUnPasoAtras`). The comment at `market/domain/services.py:421-424` says that the
   average shown "solo queda un paso atras". Nothing orders the refreshes: of three requests that overlap
   without any failure, the one that listed first may save last, and the total then shown is two ratings
   behind until somebody rates that seller again. What holds is `ReputacionDeUnaLista`: average and total are
   always those of one list.

4. `baja_platos` (`BajaSinPlatosVivos`). `accounts/infrastructure/repositories_impl.py:42-46` answers a seller
   with open orders "Tienes pedidos activos en tus publicaciones. Espera a que se entreguen antes de eliminar
   tu cuenta." It looks for them by `Pedido.publicacion`, the first publication of the cart, while the cascade
   goes by `PedidoItem.publicacion`: a seller whose dish is a later item is let go, and the dish leaves an
   open order whose total still charges it. What the queries do look for they find (`BajaSinPedidosVivos`).

Modelling also showed, without a sentence in the repository to set against it: a late acceptance takes an
order from ENTREGADO back to ACEPTADO; two overlapping requests of one courier take two orders; a worker that
dies between registering an event and storing its notice loses the notice, as the redelivery then counts as a
duplicate (counted by `PerdidasContadas`); a rating whose request timed out is stored twice when the buyer
retries (counted by `DuplicadosContados`); a buyer may be charged twice, by repeated or overlapping requests,
as nothing looks for an earlier charge; the loser of the race for the transaction is charged and told nothing;
writes of the catalogue's rows that come from deleting an account do not invalidate the cached listing, and a
reader that read before a sale may store its rows after the sale's invalidation, to be served until the time
to live ends; deleting an account leaves its rows of `Ubicacion`; deleting a publication takes finished
deliveries out of their courier's history (cascade through the order); `listar_pedidos_cercanos` does not ask
whether the courier is active; the buyer may mark an order ENTREGADO while its courier is on the way, and when
buyer or seller then deletes the account, no query sees the open delivery that goes with the order
(`delivery/infrastructure/models.py:34-38`); an encoded route that stops between two points is served as if it
were whole; `resumen` adds up the totals of the orders while the offers show the delivery fee and the tip; no
code calls the `upsert_transaction` of the adapter of support-service; an amount below half a cent passes the
validation of the payment service as positive and is stored as 0.

## 5. Proofs

All are proved by `tlapm` for any sets of accounts, publications, orders, couriers, payments and threads and
any bounds, from the named assumptions on the constants only (`Constantes...` in each module: which constants
are natural numbers, finite sets or functions between which sets, `Nadie` is none of the ids, the sets of
accounts and publications are disjoint). TLC evaluates them in every run. Three theorems have the hypothesis
`ClienteSerie`, which says which clients they are about: those that send one request at a time. `SigueAlguien`
supposes that threads and order ids are finitely many, as otherwise a chain of waits need not close.

The library's induction theorems take an operator as a parameter, which the provers here cannot instantiate.
Where a sum or a count is needed, `Conteo` argues by the least counterexample instead: `Minimo` (from the
well-foundedness of `<` on the naturals) gives the least element of a set of naturals, `MenorConjunto` a smallest
set among finite ones, and `Pliegue`, `Sumas`, `SumaMonotona`, `SumaConUno`, `SumaNula` what the folds of the community
modules compute: that they exist, that a sum grows with its terms, that raising one term by one raises it by one.
`PorAppend` is the same for sequences: of what fails for some sequence, a shortest one is empty or its beginning does
not fail. On it rest what `FoldLeft` and `FlattenSeq` compute, element by element (`Izquierda`, `Aplanadas`).

### The market: `Pedidos_proofs`

| Theorem | Says |
|---|---|
| `Tipos`, `Conservacion`, `Integridad` | `Spec => []TypeOK`, `[]ConservacionStock`, `[]IntegridadReferencial` |
| `Borrado` | `Spec => BorradoEsFinal` |
| `Totales` | `Spec => []TotalCubreItems` |
| `UnActivo` | with `ClienteSerie`, `Spec => []UnActivoSinResurreccion` |
| `Completos` | `Spec => []AvisosCompletos` |
| `VendeDeUnaVez` | `Spec => ImplementaTienda`: the refinement of `Tienda` |
| `SigueAlguien` | with finitely many threads and orders, `Spec => []SinAtasco` |

`ConservacionStock` is not inductive alone: the commit writes `foto.stock - cantidad`, the snapshot
taken when the row was locked. The inductive invariant `IInv` adds that a thread that has all its locks
has a snapshot equal to the rows (`Candados`), that no two threads hold one row (`Exclusion`), that an
unused publication has sold nothing (`SinVentas`) and whole foreign keys, which typing needs as well:
the addressee of a notice is the owner of an order's main publication. `Exclusion` keeps the others from
writing a locked row, so `Candados` survives their steps, and then `max(0, ...)` never clips.

`Totales` keeps, for each order, that its total is the fee and its lines at the prices of the sale, or more when a
publication is gone (`Cubierto`): an order's prices and total are written once, and the one step that changes its
lines, the cascade of a deletion, takes units away, so the sum of the lines only falls (`SubtotalMonotono`).
`UnActivo` uses another invariant, `InvSerie`: one request per account in flight, a buyer who is
creating an order has no active one that was never delivered, and an ENTREGADO order is recorded in
`entregados`. `Completos` uses `IInvAvisos`: notices are only of ids that were taken, so a new order
starts with none, and the notices lost of orders that exist are at most the requests that died; each step
adds no lost notice, or one together with the request that dies.

`VendeDeUnaVez` places the sale at the commit. What `Tienda` asks there of the rows, `CreateOrderCommit` asks
of the snapshot; `Candados` makes the two the same for the publications of the cart, which are locked until
then, and so the stock written is the one in the table less the units (`CommitVende`). The refinement needs
two facts of its own: a snapshot has no price for a publication that is not in the cart (`FotosDelCarro`), and
what is on sale allows at least one unit (`Ofrecidas`, which the abstract steps themselves keep:
`OfrecidasPaso`). All other steps are an offer, a withdrawal, an order attended, or stutter.

`SigueAlguien` shows that nobody waits for what nobody will give. A request in its SELECT has rows of its cart
left to lock (`CarrosAMedias`), and an order that is being created has an id left to take, as each creation
that passed its check is counted against the free ones (`CabenCreaciones`). So where no thread can take a
step, each one under way waits for a lock of another that is under way too. A smallest nonempty set of threads
that is closed under that waiting is then a cycle (`EsperasEnCiclo`, from `MenorConjunto`): each of its
members is waited for by one of them, or the set without it would do. That is `EnCiclo`, and PostgreSQL aborts
one of them.

### Delivery: `Entregas_proofs`

| Theorem | Says |
|---|---|
| `Aceptado`, `EnOrden` | `SpecEntregas => []AsignadoFueAceptado`, `[]HitosEnOrden` |
| `Estable` | `SpecEntregas => RepartidorEstable` |
| `Implementa` | `SpecEntregas => ImplementaPedidos`: the composition implements the market |
| `CumpleCiclo` | with `ClienteSerie`, `SpecEntregas => ImplementaCiclo`: it implements what users expect |
| `TiendaConReparto` | `SpecEntregas => ImplementaTienda`, from `Implementa` and `VendeDeUnaVez` |
| `Cierra`, `Informa` | `SpecEntregas => []FinalizadoCierra`, `[]AvisosEntregaCompletos` |

The market's invariant `IInv` holds in the composition because each step of it is one of the market's or leaves
the market alone, which is also `Implementa`. To it `IInvR` adds the types of delivery, no assignment without
its order, the two properties themselves, and that what a request has read still holds (the stage it
read was reached, the courier is the same) or its order is gone: stages only add timestamps, so an old read
stays true though the stage may have moved. `Cierra` and `Informa` count debts: the orders of finished
deliveries still open with nobody about to close them, and the stages nobody will announce, are at most
`caidasR`. Lemma `SinDeudaNueva` says that only a request that dies adds one.

`CumpleCiclo` needs more than what was read *was* true: that it is still (`Cabe`). A request about to write a
stage finds its row at the stage before, and one about to take an order has a courier with nothing to carry,
unless the order is gone. With one request per courier (`SerieR`) nobody else moves the rows of that courier,
which is `IInvCiclo`; finding 2 is what happens to `Cabe` without it. Each write is then one step of
`CicloEntrega`, a cascade is its deletion, and everything else stutters.

### Payment events: `EventosPago_proofs`

| Theorem | Says |
|---|---|
| `TiposEventos`, `Unico` | `Spec => []TypeOK`, `[]AvisoUnico` |
| `CumplenPromesa` | `Spec => ImplementaPromesa`: the refinement of `AvisoDePago` |
| `Perdidas` | `Spec => []PerdidasContadas`: lost payments never outnumber failures |

The invariant says that no two threads work on one payment and only the one that decides finds it
PENDIENTE (`Tareas`), that every event says what its row says (`EventosVeraces`, which rests on
decisions being final, lemma `DecisionFirme`), and that what is announced was registered first and what
was just registered is not announced yet (`Registro`). The refinement maps rows to `estado` and the
decisions told to `dicho`: creation, decision and notification are the abstract steps, all others
stutter. `Perdidas` adds that payments still in a thread are neither queued nor registered
(`SinPublicar`); then each step adds to the lost payments nothing, or one of them together with one
failure, and the cardinality follows from the library's facts on finite sets.

### Ratings: `Calificaciones_proofs`

| Theorem | Says |
|---|---|
| `Guardado` | `Spec => []CalificadoGuardado` |
| `DeUna` | `Spec => []ReputacionDeUnaLista` |
| `Duplicados` | with `ClienteSerie`, `Spec => []DuplicadosContados` |

The invariant adds that a thread past `create_rating` has its rating in the list (`HilosGuardados`) and
that the summary it is about to save is that of a prefix of the list (`HilosDeUnaLista`). Lists only
grow, so that a prefix once read stays one (`PrefijoQueda`, `InsertaCrece`). The arithmetic of a summary
is not looked into: `Resumen` stays closed, and `TiposLista` types it as the summary of some list.

`Duplicados` is a balance (`Saldo`): the ratings stored, with those that support-service may still store late and
those that threads are about to ask for, are at most the failures and the orders that a request attends
(rated, being rated, or deleted with a rating). Beginning a request adds one on both sides, as nobody else attends its
order; a failure may take the order off one side but adds itself; a late insert moves within the left.

### What is sold and paid: `Catalogo_proofs`

| Theorem | Says |
|---|---|
| `Fresco` | `SpecCatalogo => []CatalogoFresco` |
| `BienUbicados` | `SpecPub => []AnunciosUbicados` |
| `PagadoUnaVez` | `SpecJornadas => []PagoDeUnaSemana` |
| `ConTransaccion`, `Avisos` | `SpecPagos => []CobroConTransaccion`, `[]AvisosDePago` |
| `TiposCatalogo`, `TiposPagos`, `TiposPub`, `TiposJornadas` | the type invariants |

- `IInvCatalogo` adds that no version was committed in the future (`DesdeAntes`), that what a reader carries was
  current when it read, no longer ago than `Demora` (`LectoresVigentes`), and that what an entry holds was current
  a time to live and a `Demora` before it expires (`EntradasVigentes`).
- `IInvPub`: every live publication has a live row of `Ubicacion` that says where its seller put it (`Ubicado`); a row
  that a thread is about to publish is nobody else's, and one that it is about to remove was all that its publication
  had (`Gestionado`); the rows left to nobody are at most the failures (`SueltosAcotados`).
- `IInvJornadas`: no delivery is dated in the future, the weeks that count a delivery are one and one for each
  time it was dated again (`SemanasAcotadas`), weeks close on Sundays at noon (`CierresEnDomingo`). That the
  pay day of a date comes after it, within a week, is arithmetic of remainders over all dates.
- `IInvPagos`: a request works on a charge that nobody else works on (`UnCobrador`) and that
  is stored, is authorised while its transaction is not open yet, and has no task (`TrabajoNuevo`);
  a task at each of its stages has stored as many notices as its retries explain (`AvisosContados`); and what a
  history without failures looks like (`SinTropiezos`): no task was retried or lost, a finished one stored one
  notice, and every order with a transaction has an authorised charge whose task exists or is about to be enqueued.

### People and who gets in: `Cuentas_proofs`

| Theorem | Says |
|---|---|
| `BajaLimpia`, `Enlaces` | `SpecCuentas => []BajaSinPedidosVivos`, `[]EnlaceAcotado` |
| `Unica` | `SpecDirecciones => []PredeterminadaUnica` |
| `Ventanas`, `NombresAcotados` | `SpecAuth => []VentanaRespetada`, `[]TocayosAcotados` |
| `TiposAdmin`, `Intentos` | `SpecAdmin => []TypeOKAdmin`, `[]IntentosContados` |
| `TiposPush`, `LleganATodos` | `SpecPush => []TypeOKPush`, `[]AvisosPushCompletos` |
| `TiposCuentas`, `TiposDirecciones`, `TiposAuth` | the other type invariants |
| `CadaParte` | a behaviour of `plataforma` is one of the module whose part it runs |
| `TiposDeCadaParte` | `SpecMC => []TiposPlataforma` |

- `IInvCuentas` adds `PedidosPasados`: an order or a delivery that a deletion in progress has asked for and
  that is open now is recorded in `tarde` or `tardeEntrega`; `EntregasDePedidos`: a delivery that is open has
  an order that is open or was ENTREGADO early; and `EnlacesGastados`: no link made with the current password,
  or a later one, has been used, nobody is changing a password that does not exist yet, and the uses of a
  password's links with the threads about to change it never outnumber the threads.
- `IInvDirecciones` says what each thread that is about to store may rely on, unless another one crossed it: after
  clearing, only its own row is still a default (`Limpio`), and writing back a row that it read as a default adds
  none beyond the crossed writes (`Releido`).
- `IInvAuth`: a thread that waits for the lock read the clock at most `Retraso` ago (`RelojesRecientes`); the
  list of hits is that of the last requests let through, each dated at most `Retraso` early, and whatever has
  been pruned passed more than a window less `Retraso` ago (`HitsDeLasUltimas`). A request is let through only
  when the list has room, so the one `MaxPeticiones` before it is among the pruned. `AspirantesAcotados`: the
  users of one folded name, with the threads that have checked it, are at most the threads, as the check finds
  no user only while there is none.
- `IInvPush`: a row is that of the browser until its endpoint expires (`FilasAlDia`), a thread about to list an
  account's rows is owed by its browsers only (`ListadosDebidos`), and the notices that no thread will push any more
  are at most the failed pushes and, for each dead thread, the browsers (`PerdidosAcotados`).

### Places: `Geo_proofs`

| Theorem | Says |
|---|---|
| `Retirado`, `SinSobrantes`, `EnSuPropiaVia` | `SpecGeo => []RetiradaRespetada`, `[]CacheSinSobrantes`, `[]SugerenciaEnSuVia` |
| `AcotadaGoogle` | `SpecGoogle => []CacheGoogleAcotada` |
| `IdaYVuelta` | decoding an encoded line gives its points back; of a text cut at any character come, if it does not raise, the first of them |
| `Fiel` | `SpecRutas => []RutaFiel` |
| `TiposGeo`, `TiposGoogle` | the type invariants |

`IInvGeo` adds that a thread about to call has not called since the 429 and that calls during a backoff were
counted (`Retiradas`); that where a thread has found or made room, the entries that stay are fewer than the
maximum and one for each overlapped store (`Cupos`); that the same holds of the entries but the oldest so far
where a thread is in its loop and has come to one, and that only such threads are past any (`Vueltas`); and
that what a thread works through are the variants of its text, each on its road (`EnCamino`, `EnSuVia`). The
latter rests on lemmas about the address functions: none of the rewritings that suggestions go through changes
the road, and collecting the variants without repetitions adds none. `IInvGoogle` counts what threads will
insert without looking at the size again (`Comprometidas`): the test of the size passes only below the
maximum, so the last of the threads to pass it leaves at most the others' inserts beyond it.

`IdaYVuelta` holds for every line of points with integer coordinates, by induction twice. A number below 32 is
one group, and reading it finishes the value in hand; a larger one is a group and the groups of its quotient,
and reading the first leaves the reader with what those expect (`Sumando`), wherever it stands (`LeeTrozos`).
A point is two values, after which the reader is at that point and holds one point more (`LeePunto`); without
its last character it still waits for a longitude, so `Entero` fails. A character more adds a point or none
(`UnoMas`), so that of a beginning of the text comes a beginning of the points (`LeeMas`). `Fiel` rests on it
and on the joining of the legs: a line collapses to the same whether a common point is written once or twice
(`UnirDibuja`), joining lines that repeat no point repeats none (`UnirDistintas`), and a beginning of the last
leg gives a beginning of the line, joined or collapsed (`UnirPrincipio`, `PrincipioDibuja`). The invariant
`IInvRutas` only adds that the route given is a beginning of one drawing's legs, or all of them, and that a
request has a provider left to ask.

**Only model-checked.** Liveness (`PeticionTermina`, `PagoReposa`): the prover has no ENABLED. The safety side
of `PeticionTermina`, that requests never all wait, is `SigueAlguien`; that each of them ends rests on
fairness and is checked on two threads. No run spends time on `BorradoEsFinal` and `RepartidorEstable`, which
are proved for every instance: the first is also part of what `ImplementaTienda` says, and `ImplementaCiclo`
has two couriers race for an order. The other properties of the passing runs are all proved, those of
`plataforma` for the module that a behaviour runs (`CadaParte`). The four findings are counterexamples of TLC,
and what holds instead is proved.

## 6. Not modelled, and why

- Validation of payload shapes, permissions, serialisation, templates, logging: the models start from
  requests that are well formed and allowed, and a refusal by the first check is no step.
- Geocoding inside `create_order` is part of the window between check and lock, its refusal one way
  for a request to die (`Caer`).
- `Publicacion.stock` is an unbounded natural number: PostgreSQL refuses a value above 2^31 - 1 on
  entry and stock only falls afterwards.
- `set_propina`: one column, stored by one statement, that nothing modelled reads.
- Image files and thumbnails of publications: files on a disk, outside the database's statements.
- Certificates and transactions in support-service: upserts of one statement; the second has no caller.
- The HTTP routes of the notifications service, the market service: single inserts, updates and reads of
  one row, so that no two of their steps interleave.
- Reverse geocoding and the scoring of results within one answer: they keep nothing. Which result
  comes out is a choice in `Geocodificacion`.
- Login, refresh, tokens and their signing, the export of an account's data: they store nothing.
- Celery's `trigger_report_generation`, health, headers, request ids, exchange rate, the ally service:
  no state beyond logs.
- The seed command, templates, assets, settings and deployment, except the threads, workers and timeouts
  taken from it.

## 7. Plan

Done, the most important behaviour first:

1. `Pedidos`, its runs and `Pedidos_proofs`, `AvisosCompletos` and `TotalCubreItems` included; `Tienda` and
   its refinement.
2. `Entregas` on top of it, `CicloEntrega`, `Entregas_proofs` with both refinements.
3. `EventosPago`, `AvisoDePago`, `EventosPago_proofs`.
4. `Calificaciones`, `Calificaciones_proofs`, `DuplicadosContados` included.
5. `Pagos`, `Catalogo`, `Publicaciones`, `Jornadas` and `Catalogo_proofs`.
6. `Cuentas`, `Direcciones`, `AuthServicio`, `LimiteAdmin`, `AvisosPush` and `Cuentas_proofs`, with the composition.
7. `Geocodificacion`, `DireccionesCo`, `GeoGoogle`, `Rutas` and `Geo_proofs`.

Left: images of publications, whose files are removed before the row's deletion commits; a proof of the two liveness
properties, should the prover come to support it.
