---------------------------- MODULE ErrorHandler ----------------------------
(***************************************************************************)
(* ErrorHandler<T, E>: a value or an error, and the monadic operations on  *)
(* it.  The four overloads of each operation differ in how the value is    *)
(* moved, not in what is done.  Every error that is constructed is logged; *)
(* logged counts the lines a chain of operations has written.              *)
(***************************************************************************)
EXTENDS Naturals

ErrorHandlerValue(v, n) == [has_value |-> TRUE, it |-> v, logged |-> n]
ErrorHandlerError(e, n) == [has_value |-> FALSE, it |-> e, logged |-> n + 1]
ErrorHandlerUnexpected(e, n) == [has_value |-> FALSE, it |-> e, logged |-> n + 1]

has_value(h) == h.has_value
value(h) == h.it
error(h) == h.it

\* The function that and_then and or_else are given returns a handler, called,
\* and is not called otherwise.
and_then(h, called) ==
    IF has_value(h) THEN called ELSE ErrorHandlerUnexpected(error(h), h.logged)

\* That of transform and transform_error returns a plain value, mapped.
transform(h, mapped) ==
    IF has_value(h) THEN ErrorHandlerValue(mapped, h.logged)
                    ELSE ErrorHandlerUnexpected(error(h), h.logged)

\* Faulty variant: the recovery runs after a success too.
or_else_Always(h, called) == called

or_else(h, called) ==
    IF ~has_value(h) THEN called ELSE ErrorHandlerValue(value(h), h.logged)

transform_error(h, mapped) ==
    IF has_value(h) THEN ErrorHandlerValue(value(h), h.logged)
                    ELSE ErrorHandlerError(mapped, h.logged)

value_or(h, default_value) == IF has_value(h) THEN value(h) ELSE default_value

=============================================================================
