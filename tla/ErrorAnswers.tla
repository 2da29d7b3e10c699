---------------------------- MODULE ErrorAnswers ----------------------------
(***************************************************************************)
(* How an exception becomes the answer of a request: the three filters of  *)
(* app.module.ts.  NestJS (external) gives an exception to the first       *)
(* filter that catches its class, the last registered first.               *)
(*                                                                         *)
(* An exception is its class and the code of the StandardResponse it       *)
(* carries, "none" when it carries another thing.                          *)
(***************************************************************************)
StatusOf == [BadRequest |-> "400", Unauthorized |-> "401", InternalServerError |-> "500",
             ServiceUnavailable |-> "503"]

HttpExceptions == DOMAIN StatusOf

Thrown(class, code) == [class |-> class, code |-> code]

(***************************************************************************)
(* What jsonwebtoken, axios or the SDKs throw is no HttpException.         *)
(***************************************************************************)
PlainError == Thrown("Error", "none")

FilterOf(e) == CASE e.class = "BadRequest" -> "validation"
                 [] e.class \in HttpExceptions \ {"BadRequest"} -> "http"
                 [] OTHER -> "global"

ValidationAnswer(e) == [status |-> StatusOf[e.class], code |-> "VALIDATION_ERROR"]

(***************************************************************************)
(* Without a code, the status stands for it.                               *)
(***************************************************************************)
HttpAnswer(e) == [status |-> StatusOf[e.class],
                  code |-> IF e.code # "none" THEN e.code ELSE StatusOf[e.class]]

GlobalAnswer == [status |-> "500", code |-> "INTERNAL_SERVER_ERROR"]

AnswerTo(e) == CASE FilterOf(e) = "validation" -> ValidationAnswer(e)
                 [] FilterOf(e) = "http" -> HttpAnswer(e)
                 [] FilterOf(e) = "global" -> GlobalAnswer

NoError == Thrown("none", "none")

(***************************************************************************)
(* What AuthGuard throws before the handler of a request runs.             *)
(***************************************************************************)
GuardErrors == {Thrown("Unauthorized", c) : c \in {"NO_AUTHORIZATION_HEADER",
                    "INVALID_AUTHORIZATION_HEADER", "SIGNING_SECRET_NOT_FOUND"}}
               \cup {PlainError}
=============================================================================
