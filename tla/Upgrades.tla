----------------------------- MODULE Upgrades -----------------------------
(***************************************************************************)
(* The 29 upgrades of the database, as the migration runner applies them.  *)
(* A schema is the set of the objects it holds: tables, columns, keys,     *)
(* constraints, the form a column was given last, and the rows an upgrade  *)
(* fills in.  MySQL commits every DDL statement at once, so an upgrade is  *)
(* a sequence of statements and may stop between any two of them.          *)
(***************************************************************************)
EXTENDS Naturals, Sequences, SequencesExt, TLC

(***************************************************************************)
(* A statement, with what the runner asks information_schema before it:    *)
(*   unless, onlyIf    leave it out when all of these are, are not there   *)
(*   remember          keep which of these are there for a later test      *)
(*   unlessRemembered  leave it out when all of these were there then      *)
(*   enough            the rest of the upgrade may be left out             *)
(* and what the server does with it:                                       *)
(*   needs, clash      an error when one is missing, is there already      *)
(*   tolerant          a clash is no error and changes nothing             *)
(*   drops, makes      what is gone and what is there afterwards           *)
(***************************************************************************)
Nothing ==
    [unless |-> {}, onlyIf |-> {}, remember |-> {}, unlessRemembered |-> {}, enough |-> {},
     needs |-> {}, clash |-> {}, tolerant |-> FALSE, drops |-> {}, makes |-> {}]

Refused(s, schema) ==
    \/ ~(s.needs \subseteq schema)
    \/ ~s.tolerant /\ s.clash \cap schema # {}

Effect(s, schema) ==
    IF s.clash \cap schema # {} THEN schema ELSE (schema \ s.drops) \cup s.makes

\* ALTER TABLE ... ADD of several things at once
Add(objects) == [Nothing EXCEPT !.clash = objects, !.makes = objects]
\* CREATE TABLE IF NOT EXISTS, with the parts later upgrades change
Table(name, parts) ==
    [Nothing EXCEPT !.clash = {name}, !.tolerant = TRUE, !.makes = {name} \cup parts]
\* ALTER TABLE ... MODIFY to the last form in forms
Modify(forms) ==
    [Nothing EXCEPT !.drops = {forms[i] : i \in 1..(Len(forms) - 1)}, !.makes = {Last(forms)}]
\* INSERT IGNORE or UPDATE that fills rows in, and may run again
Fill(rows) == [Nothing EXCEPT !.makes = {rows}]

Tables(names) == [i \in DOMAIN names |-> Table(names[i], {})]
\* A slip: no look before the ADD.
AddBlindly(objects) == Add(objects)

\* Add what a look at information_schema does not find
AddMissing(objects) == [Add(objects) EXCEPT !.unless = objects]
AddEach(names) == [i \in DOMAIN names |-> AddMissing({names[i]})]

---------------------------------------------------------------------------
(* Forms of what is changed more than once, oldest first *)

MailKind == <<"email_queue.kind@14", "email_queue.kind@21", "email_queue.kind@26">>
MailTarget == <<"chk_email_queue_target@14", "chk_email_queue_target@21", "chk_email_queue_target@26">>
RefundStatus == <<"order_refunds.status@21", "order_refunds.status@26">>
CapacityCheck == <<"chk_ticket_tiers_capacity@1", "chk_ticket_tiers_capacity@16">>
IdentityCheck == <<"chk_order_buyers_identity@4", "chk_order_buyers_identity@29">>

Upto(forms, n) == SubSeq(forms, 1, n)

\* A slip: no look before the DROP.
DropTargetBlindly ==
    [Nothing EXCEPT !.needs = {"chk_email_queue_target"},
                    !.drops = {"chk_email_queue_target"} \cup Range(MailTarget)]

\* DROP CHECK after a look found the constraint
DropTarget ==
    [Nothing EXCEPT !.onlyIf = {"chk_email_queue_target"}, !.needs = {"chk_email_queue_target"},
                    !.drops = {"chk_email_queue_target"} \cup Range(MailTarget)]
AddTarget(n) ==
    [Nothing EXCEPT !.clash = {"chk_email_queue_target"},
                    !.makes = {"chk_email_queue_target", MailTarget[n]}]

---------------------------------------------------------------------------
(* Upgrades whose file is run as it stands *)

Initial ==
    <<Table("events", {}), Table("event_zones", {}), Table("event_lineups", {}),
      Table("ticket_tiers", {"chk_ticket_tiers_capacity", CapacityCheck[1]}),
      Table("reservations", {}), Table("reservation_items", {})>>
ReservationConversion ==
    <<Add({"reservations.order_reference", "uq_reservations_order_reference"})>>
Orders ==
    Tables(<<"orders", "order_items">>) \o <<Table("order_buyers", {IdentityCheck[1]})>>
OrderIdempotency == <<Add({"orders.request_hash"})>>
OrderExpiry ==
    <<Add({"orders.expires_at"}), Fill("order_deadlines"),
      [Add({"idx_orders_expiry"}) EXCEPT !.needs = {"order_deadlines"},
                                         !.makes = @ \cup {"orders.expires_at_NOT_NULL"}]>>
CheckinAttempts == Tables(<<"checkin_attempts">>) \o <<Fill("first_checkin_attempts")>>
MidtransSnap ==
    <<[Add({"payments.gateway_order_id", "payments.gateway_reference", "payments.redirect_url",
            "uq_payments_gateway_order_id", "uq_payments_gateway_reference"})
          EXCEPT !.makes = @ \cup {"payments.status_PENDING"}],
      Add({"payment_reconciliation_cases"})>>
EmailQueue ==
    <<Table("email_queue", {"PRIMARY(order_id)", "fk_email_queue_order"})>>
Pricing ==
    <<Table("checkout_settings", {}), Fill("admin_fee"), Table("vouchers", {}), Fill("HEMAT10"),
      Table("order_vouchers", {}), Fill("uses_of_HEMAT10")>>
OptionalIdentity == <<Modify(IdentityCheck)>>

---------------------------------------------------------------------------
(* Upgrades the runner takes apart, so that they can be resumed *)

\* The old primary key serves the foreign key as its index, so that goes
\* first and comes back at the end.
resumeRecovery ==
    Tables(<<"recovery_requests", "recovery_tokens", "rate_limits">>)
    \o <<[Nothing EXCEPT !.remember = {"PRIMARY(id)"}],
         [Nothing EXCEPT !.unlessRemembered = {"PRIMARY(id)"}, !.onlyIf = {"fk_email_queue_order"},
                         !.needs = {"fk_email_queue_order"}, !.drops = {"fk_email_queue_order"}]>>
    \o AddEach(<<"email_queue.id", MailKind[1], "email_queue.dedupe_key",
                 "email_queue.recovery_request_id">>)
    \o <<Fill("mail_keys"),
         [Nothing EXCEPT !.needs = {"mail_keys"}],
         [Nothing EXCEPT !.unlessRemembered = {"PRIMARY(id)"},
                         !.needs = {"email_queue.id", "PRIMARY(order_id)"},
                         !.clash = {"fk_email_queue_order", "PRIMARY(id)"},
                         !.drops = {"PRIMARY(order_id)"},
                         !.makes = {"PRIMARY(id)", "email_queue.id_NOT_NULL"}],
         AddMissing({"email_queue.id_NOT_NULL"}),
         AddMissing({"email_queue.dedupe_key_NOT_NULL"}),
         [AddMissing({"email_queue.order_id_NULL"}) EXCEPT !.needs = {"PRIMARY(id)"}]>>
    \o AddEach(<<"uq_email_queue_dedupe", "ix_email_queue_order", "ix_email_queue_recovery">>)
    \o AddEach(<<"fk_email_queue_order", "fk_email_queue_recovery">>)
    \o <<[AddTarget(1) EXCEPT !.unless = {"chk_email_queue_target"}]>>

resumeEventPublication ==
    <<AddMissing({"events.publication_status"}),
      Fill("events_published"),
      [Nothing EXCEPT !.makes = {"events.publication_status_DEFAULT_DRAFT"}]>>

\* The error of a duplicate check constraint is passed over.
resumeAdminCatalog ==
    <<[Nothing EXCEPT !.unless = {"events.starts_at_NULL"}, !.makes = {"events.starts_at_NULL"}],
      [Nothing EXCEPT !.onlyIf = {"chk_ticket_tiers_capacity"},
                      !.needs = {"chk_ticket_tiers_capacity"},
                      !.drops = {"chk_ticket_tiers_capacity"} \cup Range(CapacityCheck)],
      [Nothing EXCEPT !.clash = {"chk_ticket_tiers_capacity"}, !.tolerant = TRUE,
                      !.makes = {"chk_ticket_tiers_capacity", CapacityCheck[2]}],
      Fill("incomplete_events_in_draft")>>

resumeAdminOrders == AddEach(<<"idx_orders_admin_created">>)

resumeAdminIssues ==
    AddEach(<<"cases.reason", "cases.last_checked_at", "cases.last_check_error", "cases.check_token",
              "cases.check_lease_until", "email_queue.superseded_by", "ix_email_queue_admin_failed">>)

resumePaymentEnvironment == <<Table("payment_environment", {}), Fill("environment_of_old_payments")>>

\* A slip: the constraint is recognised by its name.
TargetByName == {"chk_email_queue_target"}

\* What the text of chk_email_queue_target must show for the upgrade to be
\* complete.  Whether the text, as the server renders it, is recognised is
\* left open.
RefundTarget == {MailTarget[2]}

resumeRefunds ==
    <<[Nothing EXCEPT !.makes = {"orders.status_REFUNDED"}],
      Table("order_refunds", {RefundStatus[1]}), Table("order_refund_audit", {}),
      AddMissing({"email_queue.refund_snapshot"}),
      Modify(Upto(MailKind, 2)),
      [DropTarget EXCEPT !.enough = RefundTarget],
      AddTarget(2)>>

resumeRefundQueue ==
    AddEach(<<"order_refunds.next_attempt_at", "order_refunds.last_checked_at",
              "order_refunds.last_check_error", "order_refunds.claim_token",
              "order_refunds.lease_until", "order_refunds.retry_deadline", "ix_order_refunds_due">>)

resumeAdminSalesReports == AddEach(<<"ix_payments_admin_sales", "ix_order_refunds_admin_sales">>)

resumeAdminAttendanceReports == AddEach(<<"ix_ticket_checkins_admin_attendance">>)

resumeConversion ==
    Tables(<<"conversion_journeys", "conversion_reservations", "conversion_events">>)
    \o AddEach(<<"payments.started_at">>)

\* The statements of the file in their order; the ADD COLUMNs were done
\* before them.
resumeEventChanges ==
    AddEach(<<"events.lifecycle_status", "events.change_version", "events.sales_paused",
              "orders.access_deadline", "order_refunds.manual_reference",
              "order_refunds.manual_paid_at", "email_queue.event_change_id">>)
    \o <<Fill("access_deadlines"), Table("event_changes", {}), Table("event_change_orders", {}),
         Table("event_refund_rights", {}),
         Modify(RefundStatus), Modify(MailKind), DropTarget, AddTarget(3),
         [Nothing EXCEPT !.makes = {"checkin_attempts.outcome_EVENT_CHANGED"}]>>

\* One ALTER adds a column with its key; only the column is looked for.
ReviewFixes ==
    <<[Add({"event_change_orders.next_attempt_at", "ix_event_change_due"})
          EXCEPT !.unless = {"event_change_orders.next_attempt_at"}],
      [Add({"event_refund_rights.next_attempt_at", "ix_event_refund_due"})
          EXCEPT !.unless = {"event_refund_rights.next_attempt_at"}],
      AddMissing({"conversion_journeys.telemetry_received"})>>

\* items: the statements of each version, in order
Script ==
    <<Initial, <<>>, ReservationConversion, Orders, OrderIdempotency,
      Tables(<<"payments">>), Tables(<<"order_attendees", "etickets">>),
      Tables(<<"staff_users", "staff_sessions", "staff_assignments">>),
      OrderExpiry, Tables(<<"ticket_checkins">>), CheckinAttempts, MidtransSnap, EmailQueue,
      resumeRecovery, resumeEventPublication, resumeAdminCatalog,
      Tables(<<"admin_audit_log">>), resumeAdminOrders, resumeAdminIssues,
      resumePaymentEnvironment, resumeRefunds, resumeRefundQueue, resumeAdminSalesReports,
      resumeAdminAttendanceReports, resumeConversion, resumeEventChanges, ReviewFixes, Pricing,
      OptionalIdentity>>

\* The seed has no DDL: its rows and its record are one transaction.
CommittedWithRecord(v) == IF v = 2 THEN {"seed"} ELSE {}

---------------------------------------------------------------------------
(* What the files say: the reference for the upgrades that are taken apart *)

Change(drops, adds) == [Nothing EXCEPT !.drops = drops, !.makes = adds]

RecoveryFile ==
    Change({"PRIMARY(order_id)"},
           {"recovery_requests", "recovery_tokens", "rate_limits", "email_queue.id", MailKind[1],
            "email_queue.dedupe_key", "email_queue.recovery_request_id", "mail_keys",
            "PRIMARY(id)", "email_queue.id_NOT_NULL", "email_queue.dedupe_key_NOT_NULL",
            "email_queue.order_id_NULL", "uq_email_queue_dedupe", "ix_email_queue_order",
            "ix_email_queue_recovery", "fk_email_queue_order", "fk_email_queue_recovery",
            "chk_email_queue_target", MailTarget[1]})
EventPublicationFile ==
    Change({}, {"events.publication_status", "events_published",
                "events.publication_status_DEFAULT_DRAFT"})
\* The UPDATE is the runner's own.
AdminCatalogFile ==
    Change({CapacityCheck[1]}, {"events.starts_at_NULL", "chk_ticket_tiers_capacity",
                                CapacityCheck[2], "incomplete_events_in_draft"})
AdminOrdersFile == Change({}, {"idx_orders_admin_created"})
AdminIssuesFile ==
    Change({}, {"cases.reason", "cases.last_checked_at", "cases.last_check_error",
                "cases.check_token", "cases.check_lease_until", "email_queue.superseded_by",
                "ix_email_queue_admin_failed"})
PaymentEnvironmentFile == Change({}, {"payment_environment", "environment_of_old_payments"})
RefundsFile ==
    Change({MailKind[1], MailTarget[1]},
           {"orders.status_REFUNDED", "order_refunds", RefundStatus[1], "order_refund_audit",
            MailKind[2], "email_queue.refund_snapshot", "chk_email_queue_target", MailTarget[2]})
RefundQueueFile ==
    Change({}, {"order_refunds.next_attempt_at", "order_refunds.last_checked_at",
                "order_refunds.last_check_error", "order_refunds.claim_token",
                "order_refunds.lease_until", "order_refunds.retry_deadline",
                "ix_order_refunds_due"})
AdminSalesFile == Change({}, {"ix_payments_admin_sales", "ix_order_refunds_admin_sales"})
AttendanceFile == Change({}, {"ix_ticket_checkins_admin_attendance"})
ConversionFile ==
    Change({}, {"conversion_journeys", "conversion_reservations", "conversion_events",
                "payments.started_at"})
EventChangesFile ==
    Change({RefundStatus[1], MailKind[2], MailTarget[2]},
           {"events.lifecycle_status", "events.change_version", "events.sales_paused",
            "orders.access_deadline", "access_deadlines", "event_changes", "event_change_orders",
            "event_refund_rights", RefundStatus[2], "order_refunds.manual_reference",
            "order_refunds.manual_paid_at", MailKind[3], "email_queue.event_change_id",
            "chk_email_queue_target", MailTarget[3], "checkin_attempts.outcome_EVENT_CHANGED"})
ReviewFixesFile ==
    Change({}, {"event_change_orders.next_attempt_at", "ix_event_change_due",
                "event_refund_rights.next_attempt_at", "ix_event_refund_due",
                "conversion_journeys.telemetry_received"})

\* The files that the runner takes apart
File ==
    14 :> RecoveryFile @@ 15 :> EventPublicationFile @@ 16 :> AdminCatalogFile
    @@ 18 :> AdminOrdersFile @@ 19 :> AdminIssuesFile @@ 20 :> PaymentEnvironmentFile
    @@ 21 :> RefundsFile @@ 22 :> RefundQueueFile @@ 23 :> AdminSalesFile
    @@ 24 :> AttendanceFile @@ 25 :> ConversionFile @@ 26 :> EventChangesFile
    @@ 27 :> ReviewFixesFile

\* What version v alone, run once without a break, makes of a schema
Upgraded(v, schema) ==
    IF v \in DOMAIN File THEN Effect(File[v], schema)
    ELSE FoldLeft(LAMBDA sch, s : Effect(s, sch), schema, Script[v]) \cup CommittedWithRecord(v)
===========================================================================
